---- MODULE Spec2Model ----
(***************************************************************************)
(* Model of the hexonis world engine (apps/server/src/game/TileManager.ts) *)
(* over its key-value store.                                               *)
(*                                                                         *)
(* Every handler is translated as a sequence of steps.  One step is one    *)
(* store call (the point where the handler awaits) together with the       *)
(* synchronous code that follows it up to the next store call.  The        *)
(* operator Step computes one step; Run iterates Step until the handler    *)
(* has returned.  SpecSeq runs handlers one at a time (Run), the other     *)
(* specifications interleave the steps of several handlers in flight,      *)
(* which is what the single-threaded event loop does with async handlers.  *)
(*                                                                         *)
(* Numbers: energies and integrities are JavaScript numbers that the code  *)
(* rounds to four decimals (toFixedPrecision); they are kept here as       *)
(* integers counting 1/10000 (Scale).  Times are milliseconds.  Strings    *)
(* other than user ids are sequences of code points; the JavaScript null   *)
(* in a string slot is NullStr, and NullId for a user id.                  *)
(***************************************************************************)
EXTENDS Integers, Sequences, FiniteSets, TLC

\* ------------------------------------------------------------------ bounds
MaxOps == 3

MaxAdvances == 1

\* The number of calls in SpecCalls and SpecDecay.
MaxCallOps == 4

\* The number of clock advances in SpecDecay.
MaxTickAdvances == 2

\* Calls of rechargeEnergy over a seeded store.
MaxSeededTicks == 2

\* Calls in a run of claims around one flush: three claims, the call of
\* the flush, and a claim while it scans.
MaxScanOps == 5

\* Calls in a run of claims and flushes: a row written by one flush, the
\* tile captured, and two more flushes.
MaxFlushOps == 5

\* Claims made while the loops run, and store or sink calls of sweeps that
\* reject while the store connection is open.
MaxLoopClaims == 1

MaxFailures == 2

\* Packets that reach the engine, and steps of time between packets.
MaxPackets == 2

MaxGaps == 2

\* snapshotBatchSize (default 1000) is the COUNT of every sScan call; it is
\* kept small so that a sweep takes several scan calls.
snapshotBatchSize == 2

\* The radar caps (defaults 64, 64 and 32) as options small enough to cut.
maxRadarNexusPoints == 2

maxRadarBasePoints == 1

maxRadarHotspots == 1

\* -------------------------------- rate limits (socketHandler.ts, connection)
claimTileMs == 500

repairTileMs == 200

getRadarDataMs == 2000

\* ------------------------------------------------- options (DEFAULT_OPTIONS)
chunkSize == 64

maxEnergy == 100

maxPlayerEnergy == 1000

initialTileEnergy == 100

initialTileIntegrity == 100

initialTileLevel == 1

initialPlayerEnergy == 100

energyRechargePerSecond == 1

integrityDecayPerMinute == 1

freeClaimCost == 10

hostileClaimCostMultiplier == 50

repairCostEnergy == 5

repairIntegrityGain == 20

maxClaimDistanceFromOwned == 8

\* allianceNeighborBonusMultiplier 1.05 = BonusNum / BonusDen
BonusNum == 21

BonusDen == 20

\* ------------------------------------------------------------ the universe
Scale == 10000

Users == {"a", "b", "c"}

\* The players that call in the specifications other than Spec.
Actors == {"a", "b"}

\* (-1,0) and (0,0) are neighbours in different chunks; (13,0) is in the
\* chunk of (0,0) and farther than maxClaimDistanceFromOwned from both.
Coords == {<<-1, 0>>, <<0, 0>>, <<13, 0>>}

\* InMemoryRedis.sScan and the member loops visit members in the order of
\* their strings "q:r" (code unit order): "-1:0" < "0:0" < "1:0" < "13:0";
\* (1,0) is a member only in SpecScan.
MemberOrder == <<<<-1, 0>>, <<0, 0>>, <<1, 0>>, <<13, 0>>>>

Levels == {1, 2, 3}

FOX == <<70, 79, 88>>

NullStr == <<-1>>

EmptyStr == <<>>

NullId == "null"

TagInputs == {NullStr, FOX}

ClockSteps == {60000, 6000000}

\* rechargeEnergy(now) takes any finite number and stores Math.floor(now):
\* a time is a whole number of ms plus a count of 1/FracDen ms.
FracDen == 2

NowFractions == {0, 1}

Procs == {1, 2}

\* ------------------------------------------------------------ pure helpers
Abs(x) == IF x < 0 THEN -x ELSE x

Min2(a, b) == IF a < b THEN a ELSE b

Max2(a, b) == IF a > b THEN a ELSE b

SetMin(S) == CHOOSE x \in S : \A y \in S : x <= y

clamp(value, minValue, maxValue) == Max2(minValue, Min2(maxValue, value))

\* toFixedPrecision(num/den): the nearest multiple of 1/10000, halves away
\* from zero; num/den is already expressed in units of 1/10000.
toFixedPrecision(num, den) ==
  IF num >= 0 THEN (2 * num + den) \div (2 * den)
  ELSE -((2 * (-num) + den) \div (2 * den))

hex_distance(a, b) ==
  LET dq == a[1] - b[1]
      dr == a[2] - b[2]
  IN (Abs(dq) + Abs(dr) + Abs(dq + dr)) \div 2

AXIAL_DIRECTIONS == <<<<1, 0>>, <<1, -1>>, <<0, -1>>, <<-1, 0>>, <<-1, 1>>, <<0, 1>>>>

get_neighbors(q, r) == [i \in 1..6 |-> <<q + AXIAL_DIRECTIONS[i][1], r + AXIAL_DIRECTIONS[i][2]>>]

toChunkIndex_Truncating(value) ==
  IF value >= 0 THEN value \div chunkSize ELSE -((-value) \div chunkSize)

toChunkIndex(value) == value \div chunkSize

chunkKeyForTile(c) == <<toChunkIndex(c[1]), toChunkIndex(c[2])>>

ChunkIds == {chunkKeyForTile(c) : c \in Coords}

poiMember(tile) == <<tile.tileType, tile.q, tile.r, Max2(1, tile.level)>>

\* colorFromAllianceTag: the hue (hash * 31 + code) % 360 folded over the
\* tag; the "#RRGGBB" string is a fixed function of the hue (saturation and
\* lightness are constants), so the colour string is represented by <<hue>>.
RECURSIVE TagHash(_, _)
TagHash(tag, h) ==
  IF tag = <<>> THEN h ELSE TagHash(Tail(tag), (h * 31 + Head(tag)) % 360)

colorFromAllianceTag(tag) == <<TagHash(tag, 0)>>

\* --------------------------------------------------------- stored records
NoTileHash ==
  [present |-> FALSE, ownerId |-> "", ownerAllianceTag |-> EmptyStr,
   ownerAllianceColor |-> EmptyStr, energy |-> 0, lastUpdate |-> 0,
   integrity |-> 0, level |-> 0, tileType |-> "normal"]

NoPlayerHash ==
  [present |-> FALSE, displayName |-> "", allianceTag |-> EmptyStr,
   allianceColor |-> EmptyStr, energy |-> 0, lastUpdate |-> 0]

NoTile ==
  [present |-> FALSE, q |-> 0, r |-> 0, ownerId |-> NullId,
   ownerAllianceTag |-> NullStr, ownerAllianceColor |-> NullStr,
   energy |-> 0, lastUpdate |-> 0, integrity |-> 0, level |-> 0,
   tileType |-> "normal"]

NoPlayer ==
  [userId |-> "", displayName |-> "", allianceTag |-> NullStr,
   allianceColor |-> NullStr, energy |-> 0, lastUpdate |-> 0]

\* parseTile: an empty hash is no tile; "" reads as null, numbers are clamped.
parseTile(c, hash) ==
  IF ~hash.present THEN NoTile
  ELSE LET ownerId == IF hash.ownerId # "" THEN hash.ownerId ELSE NullId
       IN [present |-> TRUE, q |-> c[1], r |-> c[2],
           ownerId |-> ownerId,
           ownerAllianceTag |->
             IF ownerId # NullId /\ hash.ownerAllianceTag # EmptyStr
             THEN hash.ownerAllianceTag ELSE NullStr,
           ownerAllianceColor |->
             IF ownerId # NullId /\ hash.ownerAllianceColor # EmptyStr
             THEN hash.ownerAllianceColor ELSE NullStr,
           energy |-> clamp(hash.energy, 0, maxEnergy * Scale),
           lastUpdate |-> hash.lastUpdate,
           integrity |-> clamp(hash.integrity, 0, 100 * Scale),
           level |-> Max2(1, hash.level),
           tileType |-> IF hash.tileType = "nexus" THEN "nexus" ELSE "normal"]

\* The hash persistTileState writes for a tile.
TileHashOf(tile) ==
  [present |-> TRUE,
   ownerId |-> IF tile.ownerId = NullId THEN "" ELSE tile.ownerId,
   ownerAllianceTag |->
     IF tile.ownerAllianceTag = NullStr THEN EmptyStr ELSE tile.ownerAllianceTag,
   ownerAllianceColor |->
     IF tile.ownerAllianceColor = NullStr THEN EmptyStr ELSE tile.ownerAllianceColor,
   energy |-> toFixedPrecision(tile.energy, 1),
   lastUpdate |-> tile.lastUpdate,
   integrity |-> toFixedPrecision(tile.integrity, 1),
   level |-> Max2(1, tile.level),
   tileType |-> tile.tileType]

persistTileState(st, c, tile) == [st EXCEPT !.tiles[c] = TileHashOf(tile)]

\* The hash persistPlayerState writes for a player state.
PlayerHashOf(state) ==
  [present |-> TRUE,
   displayName |-> state.displayName,
   allianceTag |-> IF state.allianceTag = NullStr THEN EmptyStr ELSE state.allianceTag,
   allianceColor |-> IF state.allianceColor = NullStr THEN EmptyStr ELSE state.allianceColor,
   energy |-> toFixedPrecision(state.energy, 1),
   lastUpdate |-> state.lastUpdate]

persistPlayerState(st, state) ==
  [st EXCEPT !.players[state.userId] = PlayerHashOf(state)]

\* The state getOrCreatePlayerState builds for a player without a hash.
InitialPlayerState(userId, now) ==
  [userId |-> userId, displayName |-> userId, allianceTag |-> NullStr,
   allianceColor |-> NullStr, energy |-> initialPlayerEnergy * Scale,
   lastUpdate |-> now]

\* The state getOrCreatePlayerState parses from an existing hash.
ParsePlayerState(userId, hash) ==
  [userId |-> userId,
   displayName |-> IF hash.displayName # "" THEN hash.displayName ELSE userId,
   allianceTag |-> IF hash.allianceTag # EmptyStr THEN hash.allianceTag ELSE NullStr,
   allianceColor |-> IF hash.allianceColor # EmptyStr THEN hash.allianceColor ELSE NullStr,
   energy |-> clamp(hash.energy, 0, maxPlayerEnergy * Scale),
   lastUpdate |-> hash.lastUpdate]

\* The store after construction: no key exists.  An absent set is the empty
\* set, an absent sorted-set member or hash counter is 0.
EmptyStore ==
  [tiles |-> [c \in Coords |-> NoTileHash],
   tilesIndex |-> {},
   chunkTiles |-> [k \in ChunkIds |-> {}],
   ownerTiles |-> [u \in Users |-> {}],
   poiIndex |-> {},
   leaderboard |-> [u \in Users |-> 0],
   chunkActivity |-> [k \in ChunkIds |-> 0],
   players |-> [u \in Users |-> NoPlayerHash]]

zIncrBy(st, increment, member) ==
  [st EXCEPT !.leaderboard[member] = @ + increment]

recordChunkActivity_ByOne(st, c, amount) ==
  IF amount <= 0 THEN st
  ELSE [st EXCEPT !.chunkActivity[chunkKeyForTile(c)] = @ + 1]

recordChunkActivity(st, c, amount) ==
  IF amount <= 0 THEN st
  ELSE [st EXCEPT !.chunkActivity[chunkKeyForTile(c)] = @ + amount]

NoResult ==
  [ok |-> FALSE, reason |-> "none", created |-> FALSE, captured |-> FALSE,
   tile |-> NoTile, energy |-> 0, cost |-> 0, nearestDistance |-> -1,
   maxDistance |-> -1, updated |-> 0, tiles |-> <<>>, leaderboard |-> <<>>,
   playerBases |-> <<>>, nexusCores |-> <<>>, hotspots |-> <<>>,
   persisted |-> 0, upserts |-> <<>>, scans |-> 0]

\* The local variables of one handler invocation.
IdleLocal ==
  [pc |-> "idle", op |-> "none", userId |-> "", c |-> <<0, 0>>, now |-> 0,
   currentTile |-> NoTile, nextTile |-> NoTile, state |-> NoPlayer,
   gocUser |-> "", ret |-> "none", cost |-> 0, spendOk |-> FALSE,
   energyAfter |-> 0, created |-> FALSE, captured |-> FALSE,
   nowFrac |-> 0,
   nearestDistance |-> -1, level |-> 0, tag |-> NullStr, color |-> NullStr,
   members |-> <<>>, cursor |-> 0, batch |-> <<>>,
   gains |-> [u \in Users |-> 0], gainOrder |-> <<>>,
   tileCache |-> [c \in Coords |-> [cached |-> FALSE, tile |-> NoTile]],
   profileCache |-> [u \in Users |-> [cached |-> FALSE, allianceTag |-> NullStr]],
   nbr |-> 0, ownerTag |-> NullStr, gen |-> 0, updated |-> 0,
   radius |-> 0, limit |-> 0, ties |-> <<>>, ranked |-> <<>>, leaderboard |-> <<>>,
   pending |-> <<>>, persisted |-> 0, upserts |-> <<>>, scans |-> 0, after |-> "none",
   res |-> NoResult]

Out(st, l) == [st |-> st, l |-> l]

\* The handler returns res; its other locals die with it.
Finish(st, l, res) ==
  Out(st, [IdleLocal EXCEPT !.pc = "done", !.op = l.op, !.userId = l.userId,
                            !.c = l.c, !.now = l.now, !.nowFrac = l.nowFrac,
                            !.radius = l.radius, !.limit = l.limit, !.after = l.after,
                            !.res = res])

\* Enter getOrCreatePlayerState(user); ret names the code that awaits it.
CallGoc(l, user, ret) == [l EXCEPT !.pc = "goc_read", !.gocUser = user, !.ret = ret]

SortMembers(S) == SelectSeq(MemberOrder, LAMBDA c : c \in S)

\* ----------------------------------------------------- normalizeAllianceTag
RECURSIVE TrimLeft(_)
TrimLeft(s) == IF s # <<>> /\ Head(s) = 32 THEN TrimLeft(Tail(s)) ELSE s

RECURSIVE TrimRight(_)
TrimRight(s) ==
  IF s # <<>> /\ s[Len(s)] = 32 THEN TrimRight(SubSeq(s, 1, Len(s) - 1)) ELSE s

ToUpperCase(s) == [i \in 1..Len(s) |-> IF s[i] >= 97 /\ s[i] <= 122 THEN s[i] - 32 ELSE s[i]]

IsTagChar(ch) == (ch >= 65 /\ ch <= 90) \/ (ch >= 48 /\ ch <= 57)

\* [throws, tag]: null and a blank string give null, a string that is not
\* three or four of [A-Z0-9] after trim and upper-casing throws.
normalizeAllianceTag(rawTag) ==
  IF rawTag = NullStr THEN [throws |-> FALSE, tag |-> NullStr]
  ELSE LET normalized == ToUpperCase(TrimRight(TrimLeft(rawTag)))
       IN IF Len(normalized) = 0 THEN [throws |-> FALSE, tag |-> NullStr]
          ELSE IF ~(Len(normalized) \in {3, 4} /\ \A i \in 1..Len(normalized) : IsTagChar(normalized[i]))
               THEN [throws |-> TRUE, tag |-> NullStr]
               ELSE [throws |-> FALSE, tag |-> normalized]

\* ------------------------------------------------------------- claimTile
validateClaimDistance_Farthest(ownedMembers, target) ==
  IF ownedMembers = {} THEN [ok |-> TRUE, nearestDistance |-> -1]
  ELSE IF \A m \in ownedMembers : hex_distance(target, m) <= maxClaimDistanceFromOwned
       THEN [ok |-> TRUE, nearestDistance |-> -1]
       ELSE [ok |-> FALSE,
             nearestDistance |-> -SetMin({-hex_distance(target, m) : m \in ownedMembers})]

\* validateClaimDistance: ok without owned tiles or with one owned tile in
\* range; otherwise the smallest distance to an owned tile.
validateClaimDistance(ownedMembers, target) ==
  IF ownedMembers = {} THEN [ok |-> TRUE, nearestDistance |-> -1]
  ELSE IF \E m \in ownedMembers : hex_distance(target, m) <= maxClaimDistanceFromOwned
       THEN [ok |-> TRUE, nearestDistance |-> -1]
       ELSE [ok |-> FALSE,
             nearestDistance |-> SetMin({hex_distance(target, m) : m \in ownedMembers})]

IsSelfOwned_Never(currentTile, userId) == FALSE

\* claimTile line 229: the target is the claimer's own tile.
IsSelfOwned(currentTile, userId) ==
  currentTile.present /\ currentTile.ownerId = userId

IsHostile_Never(currentTile, userId) == FALSE

IsHostile(currentTile, userId) ==
  currentTile.present /\ currentTile.ownerId # NullId /\ currentTile.ownerId # userId

ClaimCost_LevelOne(currentTile, userId) ==
  IF IsHostile(currentTile, userId)
  THEN initialTileLevel * hostileClaimCostMultiplier * Scale
  ELSE freeClaimCost * Scale

ClaimCost(currentTile, userId) ==
  LET targetLevel == IF currentTile.present THEN currentTile.level ELSE initialTileLevel
  IN IF IsHostile(currentTile, userId)
     THEN targetLevel * hostileClaimCostMultiplier * Scale
     ELSE freeClaimCost * Scale

ClaimNextTile_Fresh(currentTile, c, userId, profile, now) ==
  [present |-> TRUE, q |-> c[1], r |-> c[2], ownerId |-> userId,
   ownerAllianceTag |-> profile.allianceTag,
   ownerAllianceColor |-> profile.allianceColor,
   energy |-> initialTileEnergy * Scale, lastUpdate |-> now,
   integrity |-> initialTileIntegrity * Scale,
   level |-> initialTileLevel, tileType |-> "normal"]

ClaimNextTile(currentTile, c, userId, profile, now) ==
  IF currentTile.present
  THEN [currentTile EXCEPT !.ownerId = userId,
                           !.ownerAllianceTag = profile.allianceTag,
                           !.ownerAllianceColor = profile.allianceColor,
                           !.lastUpdate = now]
  ELSE [present |-> TRUE, q |-> c[1], r |-> c[2], ownerId |-> userId,
        ownerAllianceTag |-> profile.allianceTag,
        ownerAllianceColor |-> profile.allianceColor,
        energy |-> initialTileEnergy * Scale, lastUpdate |-> now,
        integrity |-> initialTileIntegrity * Scale,
        level |-> initialTileLevel, tileType |-> "normal"]

ClaimGainsTile_CreatedOnly(currentTile, userId, created) == created

\* The condition under which claimTile credits the claimer's score.
ClaimGainsTile(currentTile, userId, created) ==
  created \/ IsHostile(currentTile, userId)
    \/ ~(currentTile.present /\ currentTile.ownerId # NullId)

ClaimOk(l) ==
  [NoResult EXCEPT !.ok = TRUE, !.reason = "ok", !.created = l.created,
                   !.captured = l.captured, !.tile = l.nextTile,
                   !.energy = l.energyAfter, !.cost = l.cost]

SpendDecision_NoGate(state, cost) ==
  [ok |-> TRUE,
   energyAfter |-> clamp(toFixedPrecision(state.energy - cost, 1), 0, maxPlayerEnergy * Scale)]

\* spendPlayerEnergy after the player state has been read.
SpendDecision(state, cost) ==
  IF state.energy < cost
  THEN [ok |-> FALSE, energyAfter |-> toFixedPrecision(state.energy, 1)]
  ELSE [ok |-> TRUE,
        energyAfter |-> clamp(toFixedPrecision(state.energy - cost, 1), 0, maxPlayerEnergy * Scale)]

\* claimTile after spendPlayerEnergy has returned.
ClaimAfterSpend(st, l) ==
  IF ~l.spendOk
  THEN Finish(st, l, [NoResult EXCEPT !.reason = "insufficient-energy",
                                      !.tile = l.currentTile, !.cost = l.cost,
                                      !.energy = l.energyAfter])
  ELSE Out(st, CallGoc([l EXCEPT !.created = ~l.currentTile.present,
                                 !.captured = IsHostile(l.currentTile, l.userId)],
                       l.userId, "c_profile"))

\* ------------------------------------------------------------ repairTile
RepairedTile_Full(tile, now) ==
  [tile EXCEPT !.integrity = 100 * Scale, !.lastUpdate = now]

RepairedTile(tile, now) ==
  [tile EXCEPT !.integrity = clamp(toFixedPrecision(tile.integrity + repairIntegrityGain * Scale, 1),
                                   0, 100 * Scale),
               !.lastUpdate = now]

RepairRefusal_OwnerFirst(tile, userId) ==
  IF tile.ownerId # userId THEN "r_notowner"
  ELSE IF ~tile.present THEN "r_notfound"
  ELSE "none"

\* repairTile lines 338-356: the refusals decided from the tile alone, in
\* the order of the code, named by the label of the return they lead to.
RepairRefusal(tile, userId) ==
  IF ~tile.present THEN "r_notfound"
  ELSE IF tile.ownerId # userId THEN "r_notowner"
  ELSE "none"

RepairFail(l, reason, energy) ==
  [NoResult EXCEPT !.reason = reason, !.tile = l.currentTile, !.energy = energy,
                   !.cost = IF reason = "insufficient-energy" THEN repairCostEnergy * Scale ELSE 0]

\* repairTile after spendPlayerEnergy has returned.
RepairAfterSpend(st, l) ==
  IF ~l.spendOk
  THEN Finish(st, l, RepairFail(l, "insufficient-energy", l.energyAfter))
  ELSE Out(st, [l EXCEPT !.nextTile = RepairedTile(l.currentTile, l.now),
                         !.pc = "r_persist"])

AfterSpend(st, l) ==
  IF l.op = "claim" THEN ClaimAfterSpend(st, l) ELSE RepairAfterSpend(st, l)

\* Enter spendPlayerEnergy(userId, cost, now).
CallSpend(l, cost) ==
  CallGoc([l EXCEPT !.cost = cost], l.userId, IF cost <= 0 THEN "spend_zero" ELSE "spend_read")

\* --------------------------------------------------------- registerNexus
NexusTile(existing, c, level, now) ==
  IF existing.present
  THEN [existing EXCEPT !.level = level, !.tileType = "nexus", !.lastUpdate = now]
  ELSE [present |-> TRUE, q |-> c[1], r |-> c[2], ownerId |-> NullId,
        ownerAllianceTag |-> NullStr, ownerAllianceColor |-> NullStr,
        energy |-> initialTileEnergy * Scale, lastUpdate |-> now,
        integrity |-> initialTileIntegrity * Scale, level |-> level,
        tileType |-> "nexus"]

\* -------------------------------------------------------- setAllianceTag
HSetAlliance_Replacing(st, c, tag, color) ==
  [st EXCEPT !.tiles[c] =
     [present |-> TRUE, ownerId |-> "",
      ownerAllianceTag |-> IF tag = NullStr THEN EmptyStr ELSE tag,
      ownerAllianceColor |-> IF color = NullStr THEN EmptyStr ELSE color,
      energy |-> 0, lastUpdate |-> 0, integrity |-> initialTileIntegrity * Scale,
      level |-> initialTileLevel, tileType |-> "normal"]]

\* hSet of the two alliance fields; on a key without a hash it creates one
\* holding only these fields, which parseTile reads with its defaults.
HSetAlliance(st, c, tag, color) ==
  LET tagField == IF tag = NullStr THEN EmptyStr ELSE tag
      colorField == IF color = NullStr THEN EmptyStr ELSE color
      hash == st.tiles[c]
  IN IF hash.present
     THEN [st EXCEPT !.tiles[c] = [hash EXCEPT !.ownerAllianceTag = tagField,
                                               !.ownerAllianceColor = colorField]]
     ELSE [st EXCEPT !.tiles[c] =
             [present |-> TRUE, ownerId |-> "", ownerAllianceTag |-> tagField,
              ownerAllianceColor |-> colorField, energy |-> 0, lastUpdate |-> 0,
              integrity |-> initialTileIntegrity * Scale,
              level |-> initialTileLevel, tileType |-> "normal"]]

\* setAllianceTag after getOrCreatePlayerState has returned.
SetTagAfterState(st, l, clk) ==
  LET n == normalizeAllianceTag(l.tag)
      color == IF n.tag # NullStr THEN colorFromAllianceTag(n.tag) ELSE NullStr
  IN IF n.throws
     THEN Finish(st, l, [NoResult EXCEPT !.reason = "throw"])
     ELSE Out(st, [l EXCEPT !.tag = n.tag, !.color = color,
                            !.state = [l.state EXCEPT !.allianceTag = n.tag,
                                                      !.allianceColor = color,
                                                      !.lastUpdate = clk],
                            !.pc = "s_persist"])

\* -------------------------------------------------------- rechargeEnergy
\* InMemoryRedis.sScan: the members sorted, sliced from the cursor.
sScan(set, cursor, count) ==
  LET orderedMembers == SortMembers(set)
      end == Min2(cursor + count, Len(orderedMembers))
  IN [cursor |-> IF end >= Len(orderedMembers) THEN 0 ELSE end,
      members |-> SubSeq(orderedMembers, cursor + 1, end)]

sameTileState(a, b) == a = b

\* Elapsed time is counted in 1/FracDen ms.  One unit of integrity
\* (1/10000) decays in DecayDen such steps at one point per minute; energies
\* generated are counted in 1/GainDen of a unit, which holds
\* elapsedMs/1000 x rate x 1.05 exactly.
DecayDen == (60000 * FracDen) \div Scale

GainDen == (BonusDen * 1000 * FracDen) \div Scale

evolveTileState_ActiveAtZero(tile, now, nowFrac, multNum) ==
  LET elapsedMs == Max2(0, (now - tile.lastUpdate) * FracDen + nowFrac)
      generatedEnergy == elapsedMs * energyRechargePerSecond * multNum
  IN IF elapsedMs = 0
     THEN [tile |-> tile, playerEnergyGenerated |-> 0]
     ELSE [tile |-> [tile EXCEPT
                       !.integrity = clamp(toFixedPrecision(tile.integrity * DecayDen
                                              - elapsedMs * integrityDecayPerMinute, DecayDen),
                                           0, 100 * Scale),
                       !.energy = clamp(toFixedPrecision(tile.energy * GainDen + generatedEnergy,
                                                         GainDen),
                                        0, maxEnergy * Scale),
                       !.lastUpdate = now],
           playerEnergyGenerated |-> generatedEnergy]

evolveTileState_Unclamped(tile, now, nowFrac, multNum) ==
  LET elapsedMs == Max2(0, (now - tile.lastUpdate) * FracDen + nowFrac)
      activeMs == IF tile.integrity > 0
                  THEN Min2(elapsedMs, (tile.integrity * DecayDen) \div integrityDecayPerMinute)
                  ELSE 0
      generatedEnergy == activeMs * energyRechargePerSecond * multNum
  IN IF elapsedMs = 0
     THEN [tile |-> tile, playerEnergyGenerated |-> 0]
     ELSE [tile |-> [tile EXCEPT
                       !.integrity = toFixedPrecision(tile.integrity * DecayDen
                                        - elapsedMs * integrityDecayPerMinute, DecayDen),
                       !.energy = toFixedPrecision(tile.energy * GainDen + generatedEnergy,
                                                   GainDen),
                       !.lastUpdate = now],
           playerEnergyGenerated |-> generatedEnergy]

evolveTileState_Touching(tile, now, nowFrac, multNum) ==
  LET elapsedMs == Max2(0, (now - tile.lastUpdate) * FracDen + nowFrac)
      activeMs == IF tile.integrity > 0
                  THEN Min2(elapsedMs, (tile.integrity * DecayDen) \div integrityDecayPerMinute)
                  ELSE 0
      generatedEnergy == activeMs * energyRechargePerSecond * multNum
  IN [tile |-> [tile EXCEPT
                  !.integrity = clamp(toFixedPrecision(tile.integrity * DecayDen
                                         - elapsedMs * integrityDecayPerMinute, DecayDen),
                                      0, 100 * Scale),
                  !.energy = clamp(toFixedPrecision(tile.energy * GainDen + generatedEnergy,
                                                    GainDen),
                                   0, maxEnergy * Scale),
                  !.lastUpdate = now],
      playerEnergyGenerated |-> generatedEnergy]

\* evolveTileState.  multNum / BonusDen is the generation multiplier.  The
\* generated energy is returned in 1/GainDen units, unrounded as in the code.
evolveTileState(tile, now, nowFrac, multNum) ==
  LET elapsedMs == Max2(0, (now - tile.lastUpdate) * FracDen + nowFrac)
      nextIntegrity ==
        clamp(toFixedPrecision(tile.integrity * DecayDen
                                 - elapsedMs * integrityDecayPerMinute, DecayDen),
              0, 100 * Scale)
      msUntilZero == (tile.integrity * DecayDen) \div integrityDecayPerMinute
      activeMs == IF tile.integrity > 0
                  THEN IF integrityDecayPerMinute <= 0 THEN elapsedMs
                       ELSE Min2(elapsedMs, Max2(0, msUntilZero))
                  ELSE 0
      generatedEnergy == activeMs * energyRechargePerSecond * multNum
      nextTileEnergy ==
        clamp(toFixedPrecision(tile.energy * GainDen + generatedEnergy, GainDen),
              0, maxEnergy * Scale)
  IN IF elapsedMs = 0
     THEN [tile |-> tile, playerEnergyGenerated |-> 0]
     ELSE [tile |-> [tile EXCEPT !.integrity = nextIntegrity,
                                 !.energy = nextTileEnergy,
                                 !.lastUpdate = now],
           playerEnergyGenerated |-> generatedEnergy]

AddedEnergy_Unclamped(state, gain) ==
  toFixedPrecision(state.energy * GainDen + gain, GainDen)

\* addPlayerEnergy after the player state has been read (gain in 1/GainDen).
AddedEnergy(state, gain) ==
  clamp(toFixedPrecision(state.energy * GainDen + gain, GainDen), 0, maxPlayerEnergy * Scale)

\* The end of rechargeEnergy: credit the owners in Map insertion order.
TickCredit(st, l) ==
  IF l.gainOrder = <<>>
  THEN Finish(st, l, [NoResult EXCEPT !.ok = TRUE, !.reason = "ok", !.updated = l.updated])
  ELSE Out(st, CallGoc(l, Head(l.gainOrder), "t_credit"))

\* scanTileIndex: next member of the batch, next scan call, or the end.
TickNext(st, l) ==
  IF l.batch # <<>> THEN Out(st, [l EXCEPT !.pc = "t_load"])
  ELSE IF l.cursor # 0 THEN Out(st, [l EXCEPT !.pc = "t_scan"])
  ELSE TickCredit(st, l)

TickAccumulate_LastOnly(st, l) ==
  LET owner == l.currentTile.ownerId
      l1 == IF owner # NullId /\ l.gen > 0
            THEN [l EXCEPT !.gains[owner] = l.gen,
                           !.gainOrder = IF \E i \in 1..Len(@) : @[i] = owner
                                         THEN @ ELSE Append(@, owner)]
            ELSE l
  IN TickNext(st, [l1 EXCEPT !.batch = Tail(@)])

\* rechargeEnergy lines 732-735, then the next member.
TickAccumulate(st, l) ==
  LET owner == l.currentTile.ownerId
      l1 == IF owner # NullId /\ l.gen > 0
            THEN [l EXCEPT !.gains[owner] = @ + l.gen,
                           !.gainOrder = IF \E i \in 1..Len(@) : @[i] = owner
                                         THEN @ ELSE Append(@, owner)]
            ELSE l
  IN TickNext(st, [l1 EXCEPT !.batch = Tail(@)])

\* rechargeEnergy lines 724-730 once the multiplier is known.
TickEvolve(st, l, multNum) ==
  LET evolved == evolveTileState(l.currentTile, l.now, l.nowFrac, multNum)
      l1 == [l EXCEPT !.gen = evolved.playerEnergyGenerated, !.nextTile = evolved.tile]
  IN IF ~sameTileState(l.currentTile, evolved.tile)
     THEN Out(st, [l1 EXCEPT !.pc = "t_persist"])
     ELSE TickAccumulate(st, l1)

\* getAllianceBonusMultiplier: the loop over the six neighbours, run up to
\* the next store call.  A neighbour outside Coords has no hash in any
\* state; its read returns nothing and is not a step of its own.
RECURSIVE BonusLoop(_, _)
RECURSIVE BonusNeighbor(_, _, _)
BonusCompare(st, l, neighborTag) ==
  IF neighborTag = l.ownerTag
  THEN TickEvolve(st, l, BonusNum)
  ELSE BonusLoop(st, [l EXCEPT !.nbr = @ + 1])

BonusNeighbor_AnyOwner(st, l, neighborTile) ==
  IF neighborTile.ownerId = NullId
  THEN BonusLoop(st, [l EXCEPT !.nbr = @ + 1])
  ELSE IF l.profileCache[neighborTile.ownerId].cached
       THEN BonusCompare(st, l, l.profileCache[neighborTile.ownerId].allianceTag)
       ELSE Out(st, CallGoc(l, neighborTile.ownerId, "t_nbrProfile"))

BonusNeighbor(st, l, neighborTile) ==
  IF neighborTile.ownerId = NullId \/ neighborTile.ownerId = l.currentTile.ownerId
  THEN BonusLoop(st, [l EXCEPT !.nbr = @ + 1])
  ELSE IF l.profileCache[neighborTile.ownerId].cached
       THEN BonusCompare(st, l, l.profileCache[neighborTile.ownerId].allianceTag)
       ELSE Out(st, CallGoc(l, neighborTile.ownerId, "t_nbrProfile"))

BonusLoop(st, l) ==
  IF l.nbr > 6 THEN TickEvolve(st, l, BonusDen)
  ELSE LET n == get_neighbors(l.currentTile.q, l.currentTile.r)[l.nbr]
       IN IF n \notin Coords THEN BonusLoop(st, [l EXCEPT !.nbr = @ + 1])
          ELSE IF l.tileCache[n].cached THEN BonusNeighbor(st, l, l.tileCache[n].tile)
          ELSE Out(st, [l EXCEPT !.pc = "t_nbrLoad"])

\* getAllianceBonusMultiplier once the owner's profile is known.
BonusAfterOwnerProfile(st, l, ownerTag) ==
  IF ownerTag = NullStr THEN TickEvolve(st, l, BonusDen)
  ELSE BonusLoop(st, [l EXCEPT !.ownerTag = ownerTag, !.nbr = 1])

\* getAllianceBonusMultiplier from its start.
getAllianceBonusMultiplier(st, l) ==
  LET owner == l.currentTile.ownerId
  IN IF owner = NullId THEN TickEvolve(st, l, BonusDen)
     ELSE IF l.profileCache[owner].cached
          THEN BonusAfterOwnerProfile(st, l, l.profileCache[owner].allianceTag)
          ELSE Out(st, CallGoc(l, owner, "t_ownerProfile"))

CacheProfile(l) ==
  [l EXCEPT !.profileCache[l.gocUser] = [cached |-> TRUE, allianceTag |-> l.state.allianceTag]]

\* --------------------------------------------------------- getLeaderboard
normalizedLimit_Unclamped(limit) == limit

\* clamp(Math.floor(limit), 1, 100) of a whole number.
normalizedLimit(limit) == clamp(limit, 1, 100)

\* The orders in which a store may hand out the members of S: a sorted set
\* its members of equal score, a set its members, a hash its fields.
Orders(S) ==
  {o \in [1..Cardinality(S) -> S] : \A i, j \in DOMAIN o : o[i] = o[j] => i = j}

\* zRangeWithScores(key, 0, stop, {REV: true}): score descending, equal
\* scores in the order ties.  A member never scored reads here as a member
\* of score 0; getLeaderboard drops both.
zRangeWithScores(scores, stop, ties) ==
  LET ranked == CHOOSE o \in Orders(Users) :
                  \A i, j \in DOMAIN o :
                    i < j => \/ scores[o[i]] > scores[o[j]]
                             \/ /\ scores[o[i]] = scores[o[j]]
                                /\ \E a, b \in DOMAIN ties :
                                     a < b /\ ties[a] = o[i] /\ ties[b] = o[j]
  IN [i \in 1..Min2(stop + 1, Len(ranked)) |-> [value |-> ranked[i], score |-> scores[ranked[i]]]]

\* The for loop of getLeaderboard up to its next getPlayerProfile call.
RECURSIVE LeaderboardLoop(_, _)
LeaderboardLoop(st, l) ==
  IF l.ranked = <<>>
  THEN Finish(st, l, [NoResult EXCEPT !.ok = TRUE, !.leaderboard = l.leaderboard])
  ELSE IF Head(l.ranked).value = "" \/ Max2(0, Head(l.ranked).score) <= 0
       THEN LeaderboardLoop(st, [l EXCEPT !.ranked = Tail(@)])
       ELSE Out(st, CallGoc(l, Head(l.ranked).value, "lb_profile"))

LeaderboardStep(st, l) ==
  LeaderboardLoop(st, [l EXCEPT !.ranked = zRangeWithScores(st.leaderboard,
                                                           normalizedLimit(l.limit) - 1,
                                                           l.ties)])

\* ------------------------------------------------ the steps of the handlers
\* The code that awaits getOrCreatePlayerState, resumed with l.state.
AfterGoc(st, l, clk) ==
  CASE l.ret = "c_self" ->
         Finish(st, l, [NoResult EXCEPT !.ok = TRUE, !.reason = "ok",
                                        !.tile = l.currentTile, !.energy = l.state.energy])
    [] l.ret = "c_oor" ->
         Finish(st, l, [NoResult EXCEPT !.reason = "out-of-range", !.tile = l.currentTile,
                                        !.maxDistance = maxClaimDistanceFromOwned,
                                        !.nearestDistance = l.nearestDistance,
                                        !.energy = l.state.energy])
    [] l.ret = "spend_zero" ->
         AfterSpend(st, [l EXCEPT !.spendOk = TRUE, !.energyAfter = l.state.energy])
    [] l.ret = "spend_read" ->
         LET d == SpendDecision(l.state, l.cost)
         IN IF d.ok
            THEN Out(st, [l EXCEPT !.energyAfter = d.energyAfter, !.pc = "spend_write"])
            ELSE AfterSpend(st, [l EXCEPT !.spendOk = FALSE, !.energyAfter = d.energyAfter])
    [] l.ret = "c_profile" ->
         Out(st, [l EXCEPT !.nextTile = ClaimNextTile(l.currentTile, l.c, l.userId, l.state, l.now),
                           !.pc = "c_persist"])
    [] l.ret = "r_notfound" -> Finish(st, l, RepairFail(l, "tile-not-found", l.state.energy))
    [] l.ret = "r_notowner" -> Finish(st, l, RepairFail(l, "not-owner", l.state.energy))
    [] l.ret = "s_state" -> SetTagAfterState(st, l, clk)
    [] l.ret = "lb_profile" ->
         LeaderboardLoop(st, [l EXCEPT !.ranked = Tail(@),
                                       !.leaderboard =
                                         Append(@, [userId |-> Head(l.ranked).value,
                                                    displayName |-> l.state.displayName,
                                                    allianceTag |-> l.state.allianceTag,
                                                    allianceColor |-> l.state.allianceColor,
                                                    score |-> Max2(0, Head(l.ranked).score)])])
    [] l.ret = "t_ownerProfile" -> BonusAfterOwnerProfile(st, CacheProfile(l), l.state.allianceTag)
    [] l.ret = "t_nbrProfile" -> BonusCompare(st, CacheProfile(l), l.state.allianceTag)
    [] l.ret = "t_credit" ->
         Out(st, [l EXCEPT !.energyAfter = AddedEnergy(l.state, l.gains[l.gocUser]),
                           !.pc = "t_creditWrite"])

\* getOrCreatePlayerState: hGetAll, and for a player without a hash hSet.
GocStep(st, l, clk) ==
  IF l.pc = "goc_read"
  THEN LET hash == st.players[l.gocUser]
       IN IF hash.present
          THEN AfterGoc(st, [l EXCEPT !.state = ParsePlayerState(l.gocUser, hash)], clk)
          ELSE Out(st, [l EXCEPT !.state = InitialPlayerState(l.gocUser, clk),
                                 !.pc = "goc_create"])
  ELSE AfterGoc(persistPlayerState(st, l.state), l, clk)

\* spendPlayerEnergy: the hSet of the debited state.
SpendWrite(st, l) ==
  AfterSpend(persistPlayerState(st, [l.state EXCEPT !.energy = l.energyAfter,
                                                     !.lastUpdate = l.now]),
             [l EXCEPT !.spendOk = TRUE])

\* claimTile lines 309-317 decide the next store call after the owner sets.
ClaimAfterScore(st, l) ==
  Out(st, [l EXCEPT !.pc = IF l.nextTile.tileType = "nexus" THEN "c_sadd_poi" ELSE "c_activity"])

ClaimAfterPrev(st, l) ==
  IF ClaimGainsTile(l.currentTile, l.userId, l.created)
  THEN Out(st, [l EXCEPT !.pc = "c_zinc"])
  ELSE ClaimAfterScore(st, l)

ClaimStep(st, l, clk) ==
  CASE l.pc = "c_load" ->
         LET currentTile == parseTile(l.c, st.tiles[l.c])
             l1 == [l EXCEPT !.currentTile = currentTile]
         IN IF IsSelfOwned(currentTile, l.userId)
            THEN Out(st, CallGoc(l1, l.userId, "c_self"))
            ELSE Out(st, [l1 EXCEPT !.pc = "c_range"])
    [] l.pc = "c_range" ->
         LET rangeValidation == validateClaimDistance(st.ownerTiles[l.userId], l.c)
         IN IF ~rangeValidation.ok
            THEN Out(st, CallGoc([l EXCEPT !.nearestDistance = rangeValidation.nearestDistance],
                                 l.userId, "c_oor"))
            ELSE Out(st, CallSpend(l, ClaimCost(l.currentTile, l.userId)))
    [] l.pc = "c_persist" ->
         Out(persistTileState(st, l.c, l.nextTile), [l EXCEPT !.pc = "c_sadd_chunk"])
    [] l.pc = "c_sadd_chunk" ->
         Out([st EXCEPT !.chunkTiles[chunkKeyForTile(l.c)] = @ \cup {l.c}],
             [l EXCEPT !.pc = "c_sadd_index"])
    [] l.pc = "c_sadd_index" ->
         Out([st EXCEPT !.tilesIndex = @ \cup {l.c}], [l EXCEPT !.pc = "c_sadd_owner"])
    [] l.pc = "c_sadd_owner" ->
         LET st1 == [st EXCEPT !.ownerTiles[l.userId] = @ \cup {l.c}]
         IN IF IsHostile(l.currentTile, l.userId)
            THEN Out(st1, [l EXCEPT !.pc = "c_srem_prev"])
            ELSE ClaimAfterPrev(st1, l)
    [] l.pc = "c_srem_prev" ->
         Out([st EXCEPT !.ownerTiles[l.currentTile.ownerId] = @ \ {l.c}],
             [l EXCEPT !.pc = "c_zdec_prev"])
    [] l.pc = "c_zdec_prev" ->
         ClaimAfterPrev(zIncrBy(st, -1, l.currentTile.ownerId), l)
    [] l.pc = "c_zinc" -> ClaimAfterScore(zIncrBy(st, 1, l.userId), l)
    [] l.pc = "c_sadd_poi" ->
         Out([st EXCEPT !.poiIndex = @ \cup {poiMember(l.nextTile)}],
             [l EXCEPT !.pc = "c_activity"])
    [] l.pc = "c_activity" ->
         Finish(recordChunkActivity(st, l.c, IF l.captured THEN 3 ELSE 1), l, ClaimOk(l))

RepairStep(st, l, clk) ==
  CASE l.pc = "r_load" ->
         LET tile == parseTile(l.c, st.tiles[l.c])
             l1 == [l EXCEPT !.currentTile = tile]
         IN IF RepairRefusal(tile, l.userId) # "none"
            THEN Out(st, CallGoc(l1, l.userId, RepairRefusal(tile, l.userId)))
            ELSE Out(st, CallSpend(l1, repairCostEnergy * Scale))
    [] l.pc = "r_persist" ->
         Out(persistTileState(st, l.c, l.nextTile), [l EXCEPT !.pc = "r_activity"])
    [] l.pc = "r_activity" ->
         Finish(recordChunkActivity(st, l.c, 2), l,
                [NoResult EXCEPT !.ok = TRUE, !.reason = "ok", !.tile = l.nextTile,
                                 !.energy = l.energyAfter, !.cost = repairCostEnergy * Scale])

NexusStep(st, l, clk) ==
  CASE l.pc = "n_load" ->
         LET existing == parseTile(l.c, st.tiles[l.c])
         IN Out(st, [l EXCEPT !.currentTile = existing,
                              !.nextTile = NexusTile(existing, l.c, l.level, clk),
                              !.pc = IF existing.present /\ existing.tileType = "nexus"
                                     THEN "n_srem" ELSE "n_persist"])
    [] l.pc = "n_srem" ->
         Out([st EXCEPT !.poiIndex = @ \ {poiMember(l.currentTile)}],
             [l EXCEPT !.pc = "n_persist"])
    [] l.pc = "n_persist" ->
         Out(persistTileState(st, l.c, l.nextTile), [l EXCEPT !.pc = "n_sadd_chunk"])
    [] l.pc = "n_sadd_chunk" ->
         Out([st EXCEPT !.chunkTiles[chunkKeyForTile(l.c)] = @ \cup {l.c}],
             [l EXCEPT !.pc = "n_sadd_index"])
    [] l.pc = "n_sadd_index" ->
         Out([st EXCEPT !.tilesIndex = @ \cup {l.c}], [l EXCEPT !.pc = "n_sadd_poi"])
    [] l.pc = "n_sadd_poi" ->
         Finish([st EXCEPT !.poiIndex = @ \cup {poiMember(l.nextTile)}], l,
                [NoResult EXCEPT !.ok = TRUE, !.reason = "ok", !.tile = l.nextTile])

\* setAllianceTag after the player state, and syncAllianceTagToOwnedTiles.
SetTagStep(st, l, clk) ==
  LET done == [NoResult EXCEPT !.ok = TRUE, !.reason = "ok"]
  IN CASE l.pc = "s_persist" ->
            Out(persistPlayerState(st, l.state), [l EXCEPT !.pc = "s_members"])
       [] l.pc = "s_members" ->
            LET members == SortMembers(st.ownerTiles[l.userId])
            IN IF members = <<>> THEN Finish(st, l, done)
               ELSE Out(st, [l EXCEPT !.members = members, !.pc = "s_sync"])
       [] l.pc = "s_sync" ->
            LET st1 == HSetAlliance(st, Head(l.members), l.tag, l.color)
            IN IF Tail(l.members) = <<>> THEN Finish(st1, l, done)
               ELSE Out(st1, [l EXCEPT !.members = Tail(@)])

TickStep(st, l, clk) ==
  CASE l.pc = "t_scan" ->
         LET response == sScan(st.tilesIndex, l.cursor, snapshotBatchSize)
         IN TickNext(st, [l EXCEPT !.cursor = response.cursor, !.batch = response.members])
    [] l.pc = "t_load" ->
         LET c == Head(l.batch)
             tile == parseTile(c, st.tiles[c])
             l1 == [l EXCEPT !.currentTile = tile,
                             !.tileCache[c] = [cached |-> TRUE, tile |-> tile]]
         IN IF ~tile.present THEN TickNext(st, [l1 EXCEPT !.batch = Tail(@)])
            ELSE getAllianceBonusMultiplier(st, l1)
    [] l.pc = "t_nbrLoad" ->
         LET n == get_neighbors(l.currentTile.q, l.currentTile.r)[l.nbr]
             tile == parseTile(n, st.tiles[n])
         IN BonusNeighbor(st, [l EXCEPT !.tileCache[n] = [cached |-> TRUE, tile |-> tile]], tile)
    [] l.pc = "t_persist" ->
         LET c == <<l.currentTile.q, l.currentTile.r>>
         IN TickAccumulate(persistTileState(st, c, l.nextTile),
                           [l EXCEPT !.tileCache[c] = [cached |-> TRUE, tile |-> l.nextTile],
                                     !.updated = @ + 1])
    [] l.pc = "t_creditWrite" ->
         TickCredit(persistPlayerState(st, [l.state EXCEPT !.energy = l.energyAfter,
                                                           !.lastUpdate = l.now]),
                    [l EXCEPT !.gainOrder = Tail(@)])

\* One store call of the handler with locals l, at wall-clock time clk.
Step(st, l, clk) ==
  CASE l.pc \in {"goc_read", "goc_create"} -> GocStep(st, l, clk)
    [] l.pc = "spend_write" -> SpendWrite(st, l)
    [] l.op = "claim" -> ClaimStep(st, l, clk)
    [] l.op = "repair" -> RepairStep(st, l, clk)
    [] l.op = "nexus" -> NexusStep(st, l, clk)
    [] l.op = "tag" -> SetTagStep(st, l, clk)
    [] l.op = "leaderboard" -> LeaderboardStep(st, l)
    [] l.op = "tick" -> TickStep(st, l, clk)

Running(l) == l.pc \notin {"idle", "done"}

\* The handler run to its return without interruption.
RECURSIVE Run(_, _, _)
Run(st, l, clk) ==
  IF ~Running(l) THEN Out(st, l)
  ELSE CHOOSE out \in {Run(n.st, n.l, clk) : n \in {Step(st, l, clk)}} : TRUE

\* The locals of a handler at its first store call.
BeginClaim(userId, c, clk) ==
  [IdleLocal EXCEPT !.op = "claim", !.userId = userId, !.c = c, !.now = clk, !.pc = "c_load"]

BeginRepair(userId, c, clk) ==
  [IdleLocal EXCEPT !.op = "repair", !.userId = userId, !.c = c, !.now = clk, !.pc = "r_load"]

BeginNexus(c, level) ==
  [IdleLocal EXCEPT !.op = "nexus", !.c = c, !.level = level, !.pc = "n_load"]

BeginSetTag(userId, tag) ==
  CallGoc([IdleLocal EXCEPT !.op = "tag", !.userId = userId, !.tag = tag], userId, "s_state")

BeginLeaderboard(limit, ties) ==
  [IdleLocal EXCEPT !.op = "leaderboard", !.limit = limit, !.ties = ties, !.pc = "lb_range"]

BeginTick(now, nowFrac) ==
  [IdleLocal EXCEPT !.op = "tick", !.now = now, !.nowFrac = nowFrac, !.pc = "t_scan"]

\* ------------------------------------------------------------- the state
\* redis: the key-value store.  procs: the locals of the handler each
\* process is running or has last run.  clock: Date.now().  spent: for each
\* player the sum of the energyCost of the claims and repairs that returned
\* ok (a history variable).  opsLeft, advancesLeft: what the bounds leave.
\* postgres: whether a snapshot repository is configured, and the rows of
\* world_tiles.  server: the process around the TileManager, namely its two
\* interval timers, whether the store connection is open, how far shutdown
\* has got, the number of onBackgroundError calls, and the number of store
\* or sink calls that may still reject while the connection is open.
\* limiter: for each socket the Map of its InMemoryRateLimitStore and its
\* lastSweepAt and the last acknowledgement the middleware sent; as history
\* values, for each user and event the number of such actions that reached
\* the engine and the time of the last, and the number of packets rejected.
VARIABLES redis, procs, clock, spent, opsLeft, advancesLeft, postgres, server, limiter, sockets

vars == <<redis, procs, clock, spent, opsLeft, advancesLeft, postgres, server, limiter, sockets>>

\* Three connections: two sockets of user a and one of user b.
SocketUser == <<"a", "a", "b">>

LimitedEvents == {"claim_tile", "repair_tile", "get_radar_data"}

\* No packet has arrived; a key that is not in a Map reads as -1.
NoLimits ==
  [store |-> [s \in DOMAIN SocketUser |-> [k \in Actors \X LimitedEvents |-> -1]],
   lastSweepAt |-> [s \in DOMAIN SocketUser |-> 0],
   ack |-> [s \in DOMAIN SocketUser |-> "none"],
   reached |-> [k \in Actors \X LimitedEvents |-> [count |-> 0, at |-> 0]],
   rejected |-> 0]

\* The handlers of sync_view packets the viewing socket can have in flight.
SyncHandlers == {1, 2}

\* A sync_view handler that has not been entered: the payload it parsed, the
\* tiles get_tiles_in_range returned, and inside syncChunkRooms the two sets
\* in insertion order and the position i of the loop it is in.
IdleSync ==
  [pc |-> "idle", centerQ |-> 0, centerR |-> 0, radius |-> 0, tiles |-> <<>>,
   currentChunkIds |-> <<>>, nextChunkSet |-> <<>>, i |-> 1]

\* sockets: the connection of a viewing client.  rooms are the rooms the
\* socket has joined and chunkIds is socket.data.chunkIds (undefined reads as
\* the empty set); as history values, the payload of the last view_update
\* acknowledged and the (coordinate, owner) pairs the client has been sent.
NoSockets ==
  [rooms |-> {}, chunkIds |-> <<>>, handlers |-> [h \in SyncHandlers |-> IdleSync],
   view |-> [ok |-> FALSE, centerQ |-> 0, centerR |-> 0, radius |-> 0],
   told |-> {}, viewsLeft |-> 0]

\* A TileManager whose loops have not been started.
NoLoops ==
  [rechargeTimer |-> FALSE, snapshotTimer |-> FALSE, redisOpen |-> TRUE,
   phase |-> "up", errors |-> 0, failuresLeft |-> 0]

Init ==
  /\ redis = EmptyStore
  /\ procs = [p \in Procs |-> IdleLocal]
  /\ clock = 0
  /\ spent = [u \in Users |-> 0]
  /\ opsLeft = MaxOps
  /\ advancesLeft = MaxAdvances
  /\ postgres = [configured |-> TRUE, rows |-> {}]
  /\ server = NoLoops
  /\ limiter = NoLimits
  /\ sockets = NoSockets

AllIdle == \A p \in Procs : ~Running(procs[p])

\* spent once the handler with locals l has taken a step.
SpentAfter(l) ==
  IF l.pc = "done" /\ l.op \in {"claim", "repair"} /\ l.res.ok
  THEN [spent EXCEPT ![l.userId] = @ + l.res.cost]
  ELSE spent

\* Date.now() moves on between two store calls.
AdvanceClock(d) ==
  /\ advancesLeft > 0
  /\ clock' = clock + d
  /\ advancesLeft' = advancesLeft - 1
  /\ UNCHANGED <<redis, procs, spent, opsLeft, postgres, server, limiter, sockets>>

\* A whole handler, run alone from call to return.
Handle(l) ==
  /\ opsLeft > 0
  /\ \E n \in {Run(redis, l, clock)} :
        /\ redis' = n.st
        /\ procs' = [procs EXCEPT ![1] = n.l]
        /\ spent' = SpentAfter(n.l)
  /\ opsLeft' = opsLeft - 1
  /\ UNCHANGED <<clock, advancesLeft, postgres, server, limiter, sockets>>

claimTile(userId, c) == Handle(BeginClaim(userId, c, clock))

repairTile(userId, c) == Handle(BeginRepair(userId, c, clock))

registerNexus(c, level) == Handle(BeginNexus(c, level))

setAllianceTag(userId, tag) == Handle(BeginSetTag(userId, tag))

rechargeEnergy(nowFrac) == Handle(BeginTick(clock, nowFrac))

NextSeq ==
  \/ \E u \in Actors, c \in Coords : claimTile(u, c)
  \/ \E u \in Actors, c \in Coords : repairTile(u, c)
  \/ \E c \in Coords, level \in Levels : registerNexus(c, level)
  \/ \E u \in Actors, tag \in TagInputs : setAllianceTag(u, tag)
  \/ \E nowFrac \in NowFractions : rechargeEnergy(nowFrac)
  \/ \E d \in ClockSteps : AdvanceClock(d)

\* Handlers one at a time.
SpecSeq == Init /\ [][NextSeq]_vars

\* Longer runs of the three handlers that spend energy or place tiles: a
\* player who has spent all energy and then calls again takes four calls.
InitCalls ==
  /\ redis = EmptyStore
  /\ procs = [p \in Procs |-> IdleLocal]
  /\ clock = 0
  /\ spent = [u \in Users |-> 0]
  /\ opsLeft = MaxCallOps
  /\ advancesLeft = MaxAdvances
  /\ postgres = [configured |-> TRUE, rows |-> {}]
  /\ server = NoLoops
  /\ limiter = NoLimits
  /\ sockets = NoSockets

NextCalls ==
  \/ \E u \in Actors, c \in Coords : claimTile(u, c)
  \/ \E u \in Actors, c \in Coords : repairTile(u, c)
  \/ \E c \in Coords, level \in Levels : registerNexus(c, level)
  \/ \E d \in ClockSteps : AdvanceClock(d)

SpecCalls == InitCalls /\ [][NextCalls]_vars

\* Claims and ticks over a longer time: a tile decays to integrity 0 in one
\* tick, changes hands, and is ticked again later.
InitDecay ==
  /\ redis = EmptyStore
  /\ procs = [p \in Procs |-> IdleLocal]
  /\ clock = 0
  /\ spent = [u \in Users |-> 0]
  /\ opsLeft = MaxCallOps
  /\ advancesLeft = MaxTickAdvances
  /\ postgres = [configured |-> TRUE, rows |-> {}]
  /\ server = NoLoops
  /\ limiter = NoLimits
  /\ sockets = NoSockets

NextDecay ==
  \/ \E u \in Actors, c \in Coords : claimTile(u, c)
  \/ \E nowFrac \in NowFractions : rechargeEnergy(nowFrac)
  \/ \E d \in ClockSteps : AdvanceClock(d)

SpecDecay == InitDecay /\ [][NextDecay]_vars

\* ------------------------------------------------- handlers in flight
\* Process p is called with locals l: the handler runs up to its first
\* store call.
Call(p, l) ==
  /\ opsLeft > 0
  /\ ~Running(procs[p])
  /\ procs' = [procs EXCEPT ![p] = l]
  /\ opsLeft' = opsLeft - 1
  /\ UNCHANGED <<redis, clock, spent, advancesLeft, postgres, server, limiter, sockets>>

\* The pending store call of process p completes and p runs on to its next
\* store call or to its return.
StoreCall(p) ==
  /\ Running(procs[p])
  /\ \E n \in {Step(redis, procs[p], clock)} :
        /\ redis' = n.st
        /\ procs' = [procs EXCEPT ![p] = n.l]
        /\ spent' = SpentAfter(n.l)
  /\ UNCHANGED <<clock, opsLeft, advancesLeft, postgres, server, limiter, sockets>>

\* Two sockets: a second request is taken up while the first is in flight.
CallClaim(p, userId, c) ==
  /\ p = 2 => Running(procs[1])
  /\ Call(p, BeginClaim(userId, c, clock))

CallRepair(p, userId, c) ==
  /\ p = 2 => Running(procs[1])
  /\ Call(p, BeginRepair(userId, c, clock))

Next ==
  \/ \E p \in Procs, u \in Users, c \in Coords : CallClaim(p, u, c)
  \/ \E p \in Procs, u \in Users, c \in Coords : CallRepair(p, u, c)
  \/ \E p \in Procs : StoreCall(p)

\* Claims and repairs of two sockets, interleaved at the store calls.
Spec == Init /\ [][Next]_vars

\* Process 1 serves claims and repairs one at a time while process 2 is the
\* recharge loop (startRechargeLoop calls rechargeEnergy from a timer).
TickClaim(userId, c) == Call(1, BeginClaim(userId, c, clock))

TickRepair(userId, c) == Call(1, BeginRepair(userId, c, clock))

TickFire == Call(2, BeginTick(clock, 0))

NextTick ==
  \/ \E u \in Actors, c \in Coords : TickClaim(u, c)
  \/ \E u \in Actors, c \in Coords : TickRepair(u, c)
  \/ TickFire
  \/ \E p \in Procs : StoreCall(p)
  \/ \E d \in ClockSteps : AdvanceClock(d)

SpecTick == Init /\ [][NextTick]_vars

\* Process 1 serves claims and registerNexus one at a time while process 2
\* registers nexuses: registerNexus is a public method, and a second server
\* process seeds its nexuses (startServer) into the store the first one is
\* serving claims from.
NexusClaim(userId, c) == Call(1, BeginClaim(userId, c, clock))

NexusRegister(p, c, level) == Call(p, BeginNexus(c, level))

NextNexus ==
  \/ \E u \in Actors, c \in Coords : NexusClaim(u, c)
  \/ \E p \in Procs, c \in Coords, level \in Levels : NexusRegister(p, c, level)
  \/ \E p \in Procs : StoreCall(p)

SpecNexus == Init /\ [][NextNexus]_vars

\* Process 1 serves CLAIM_TILE and process 2 SET_ALLIANCE_TAG: the socket
\* handlers are async functions, so a second event of a user is taken up
\* while the handler of the first awaits the store.
TagClaim(userId, c) == Call(1, BeginClaim(userId, c, clock))

TagSet(userId, tag) == Call(2, BeginSetTag(userId, tag))

NextTag ==
  \/ \E u \in Actors, c \in Coords : TagClaim(u, c)
  \/ \E u \in Actors, tag \in TagInputs : TagSet(u, tag)
  \/ \E p \in Procs : StoreCall(p)

SpecTag == Init /\ [][NextTag]_vars

\* ------------------------------------------------------------ the claims
Tile(c) == parseTile(c, redis.tiles[c])

OwnerOf(c) == Tile(c).ownerId

Last == procs[1]

\* Every owner set holds exactly the coordinates whose hash names its player.
OwnerSetsMatchHashes ==
  \A u \in Users, c \in Coords :
    c \in redis.ownerTiles[u] <=> (redis.tiles[c].present /\ OwnerOf(c) = u)

ScoresMatchOwnerSets ==
  \A u \in Users : redis.leaderboard[u] = Cardinality(redis.ownerTiles[u])

\* In SpecSeq and SpecCalls: this step is one whole call of handler op.
Completed(op) == opsLeft' = opsLeft - 1 /\ procs'[1].op = op

\* The energy getPlayerEnergy(u) reads: a player without a hash has the
\* initial energy.
EnergyOf(u) ==
  IF redis.players[u].present THEN redis.players[u].energy
  ELSE initialPlayerEnergy * Scale

\* C1: after any sequence of completed claims (with the nexus registrations,
\* repairs, tag changes and ticks between them) every player's score in
\* leaderboard:tiles is the number of members of the player's owner set.
C1_ScoreIsOwnerSetSize == AllIdle => ScoresMatchOwnerSets

\* A capture has just completed: one score went down, one went up.
C1_Witness ==
  /\ Last.pc = "done" /\ Last.op = "claim" /\ Last.res.ok /\ Last.res.captured
  /\ redis.leaderboard[Last.userId] >= 1
  /\ \E u \in Users : u # Last.userId /\ redis.players[u].present /\ redis.leaderboard[u] = 0

\* C2: after any sequence of completed operations the owner set of every
\* player holds exactly the coordinates of the tiles whose hash names the
\* player as owner.
C2_OwnerSetsAreHashOwners == AllIdle => OwnerSetsMatchHashes

\* A tick has rewritten tiles after a claim of an unowned nexus and a
\* capture have moved tiles between owner sets.
C2_Witness ==
  /\ Last.pc = "done" /\ Last.op = "tick" /\ Last.res.updated > 0
  /\ \E c \in Coords : OwnerOf(c) # NullId /\ redis.chunkActivity[chunkKeyForTile(c)] >= 4

\* C3: two claims of one tile by two different players, interleaved at the
\* store calls, leave what a serial order leaves: only the owner named by
\* the tile hash has the coordinate in its owner set, and every score is the
\* size of the owner set.
C3_SameTileClaimsSerialize ==
  (/\ AllIdle
   /\ procs[1].op = "claim" /\ procs[2].op = "claim"
   /\ procs[1].c = procs[2].c /\ procs[1].userId # procs[2].userId)
  => /\ \A u \in Users : procs[1].c \in redis.ownerTiles[u] <=> OwnerOf(procs[1].c) = u
     /\ ScoresMatchOwnerSets

\* C4: the debit is atomic: once all claims and repairs have returned, every
\* player's stored energy is the initial energy less the costs of the
\* player's operations that returned ok (no tick runs in Spec).
C4_DebitsAddUp ==
  AllIdle =>
    \A u \in Users :
      redis.players[u].present =>
        redis.players[u].energy = initialPlayerEnergy * Scale - spent[u]

\* C5: a claim that completes while the tick holds a tile it has read is not
\* lost: once the tick has finished, the tile hashes name the owners the
\* claims wrote, in agreement with the owner sets and the leaderboard.
C5_TickKeepsClaims ==
  (AllIdle /\ procs[2].op = "tick") => (OwnerSetsMatchHashes /\ ScoresMatchOwnerSets)

\* C6: every stored tile has energy in [0, maxEnergy], integrity in
\* [0, 100] and level >= 1.
C6_TileRanges ==
  \A c \in Coords :
    redis.tiles[c].present =>
      /\ redis.tiles[c].energy >= 0 /\ redis.tiles[c].energy <= maxEnergy * Scale
      /\ redis.tiles[c].integrity >= 0 /\ redis.tiles[c].integrity <= 100 * Scale
      /\ redis.tiles[c].level >= 1

\* A tick has decayed a tile to integrity 0 while its energy stayed at the
\* maximum.
C6_Witness ==
  /\ Last.pc = "done" /\ Last.op = "tick"
  /\ \E c \in Coords :
       /\ redis.tiles[c].present /\ redis.tiles[c].integrity = 0
       /\ redis.tiles[c].energy = maxEnergy * Scale /\ redis.tiles[c].lastUpdate > 0

\* floor(v / chunkSize) = k, stated without division.
IsChunkIndexOf(k, v) == k * chunkSize <= v /\ v < (k + 1) * chunkSize

\* C7: after every completed claimTile or registerNexus a coordinate has a
\* tile hash iff it is in tiles:index iff it is in a chunk set, and then it
\* is in exactly the chunk set of floor(q/chunkSize), floor(r/chunkSize).
C7_IndexAndChunkMatchHashes ==
  AllIdle =>
    \A c \in Coords :
      /\ redis.tiles[c].present <=> c \in redis.tilesIndex
      /\ \A k \in ChunkIds :
           c \in redis.chunkTiles[k]
             <=> (redis.tiles[c].present /\ IsChunkIndexOf(k[1], c[1]) /\ IsChunkIndexOf(k[2], c[2]))
      /\ redis.tiles[c].present =>
           Cardinality({k \in ChunkIds : c \in redis.chunkTiles[k]}) = 1

\* Tiles exist in two chunks, one of them at a negative coordinate, made by
\* a claim and by a nexus registration.
C7_Witness ==
  /\ redis.tiles[<<-1, 0>>].present /\ redis.tiles[<<0, 0>>].present
  /\ \E c \in Coords : redis.tiles[c].tileType = "nexus"
  /\ \E c \in Coords : redis.tiles[c].present /\ redis.tiles[c].tileType = "normal"

\* C8: after registerNexus and claimTile operations, also overlapping ones
\* on one coordinate, a tile is a nexus iff poi:index holds a member for its
\* coordinate.
C8_NexusIffPoi ==
  AllIdle =>
    \A c \in Coords :
      (redis.tiles[c].present /\ Tile(c).tileType = "nexus")
        <=> (\E m \in redis.poiIndex : m[2] = c[1] /\ m[3] = c[2])

\* C9: no score in leaderboard:tiles is below zero, also after two players
\* have captured one tile from one previous owner concurrently (stated for
\* the states in which every handler has returned).
C9_ScoreNeverNegative == AllIdle => \A u \in Users : redis.leaderboard[u] >= 0

\* C10: every stored player energy lies in [0, maxPlayerEnergy].
C10_PlayerEnergyRange ==
  \A u \in Users :
    redis.players[u].present =>
      redis.players[u].energy >= 0 /\ redis.players[u].energy <= maxPlayerEnergy * Scale

\* A finished tick has credited a player whose claim was debited before,
\* and the credit has been clamped to the maximum.
C10_Witness ==
  /\ \E u \in Users : redis.players[u].present
                        /\ redis.players[u].energy = maxPlayerEnergy * Scale
  /\ procs[2].op = "tick" /\ procs[2].pc = "done"

\* C11: claimTile by the owner of the target tile returns ok with
\* created = false, captured = false, energyCost = 0 and energyAfter = the
\* player's stored energy, and leaves the whole store as it was: tile hashes
\* with their lastUpdate, index sets, leaderboard, chunk activity, players.
C11_SelfClaimChangesNothing ==
  [][(Completed("claim") /\ OwnerOf(procs'[1].c) = procs'[1].userId)
       => /\ procs'[1].res.ok /\ ~procs'[1].res.created /\ ~procs'[1].res.captured
          /\ procs'[1].res.cost = 0
          /\ procs'[1].res.energy = redis.players[procs'[1].userId].energy
          /\ procs'[1].res.tile = Tile(procs'[1].c)
          /\ redis' = redis]_vars

\* A player has claimed the own tile again at a later time: the call
\* returned ok at no cost and the tile keeps its earlier lastUpdate.
C11_Witness ==
  /\ Last.pc = "done" /\ Last.op = "claim" /\ Last.res.ok /\ Last.res.cost = 0
  /\ OwnerOf(Last.c) = Last.userId
  /\ Last.now > Tile(Last.c).lastUpdate

\* Player u owns tiles and all of them are farther than
\* maxClaimDistanceFromOwned from c.
AllOwnedTooFar(u, c) ==
  /\ redis.ownerTiles[u] # {}
  /\ \A m \in redis.ownerTiles[u] : hex_distance(c, m) > maxClaimDistanceFromOwned

ExpectedClaimCost(c) ==
  IF redis.tiles[c].present /\ redis.tiles[c].ownerId # ""
  THEN redis.tiles[c].level * hostileClaimCostMultiplier * Scale
  ELSE freeClaimCost * Scale

\* C13: a successful claimTile of a tile of another player costs the stored
\* level times hostileClaimCostMultiplier, and of a missing or unowned tile
\* freeClaimCost; energyCost is that cost, and energyAfter is the energy
\* before the claim less the cost, which is the energy stored afterwards.
C13_ClaimCharge ==
  [][(Completed("claim") /\ procs'[1].res.ok /\ OwnerOf(procs'[1].c) # procs'[1].userId)
       => /\ procs'[1].res.cost = ExpectedClaimCost(procs'[1].c)
          /\ procs'[1].res.energy = EnergyOf(procs'[1].userId) - ExpectedClaimCost(procs'[1].c)
          /\ redis'.players[procs'[1].userId].present
          /\ redis'.players[procs'[1].userId].energy = procs'[1].res.energy]_vars

\* A level-2 nexus has been captured for 100, all the energy the capturer
\* had.
C13_Witness ==
  /\ Last.pc = "done" /\ Last.op = "claim" /\ Last.res.ok /\ Last.res.captured
  /\ Last.res.tile.level = 2
  /\ Last.res.cost = 2 * hostileClaimCostMultiplier * Scale
  /\ redis.players[Last.userId].energy = 0

\* What a refused call may leave behind: the hash of a player seen for the
\* first time, with the initial energy.  Everything else is as before.
OnlyLazyPlayerCreated ==
  /\ redis'.tiles = redis.tiles
  /\ redis'.tilesIndex = redis.tilesIndex
  /\ redis'.chunkTiles = redis.chunkTiles
  /\ redis'.ownerTiles = redis.ownerTiles
  /\ redis'.poiIndex = redis.poiIndex
  /\ redis'.leaderboard = redis.leaderboard
  /\ redis'.chunkActivity = redis.chunkActivity
  /\ \A u \in Users :
       IF redis.players[u].present
       THEN redis'.players[u] = redis.players[u]
       ELSE redis'.players[u].present
              => redis'.players[u].energy = initialPlayerEnergy * Scale

\* C14: a claim that reaches the spend gate (the target is not the
\* claimer's, and it is in range) with less energy than the cost returns
\* insufficient-energy with requiredEnergy = cost and playerEnergy = the
\* claimer's energy, and leaves tiles, index, chunk and owner sets,
\* leaderboard, chunk activity and every player's energy as they were.
C14_InsufficientEnergyClaim ==
  [][(/\ Completed("claim")
      /\ OwnerOf(procs'[1].c) # procs'[1].userId
      /\ ~AllOwnedTooFar(procs'[1].userId, procs'[1].c)
      /\ EnergyOf(procs'[1].userId) < ExpectedClaimCost(procs'[1].c))
       => /\ ~procs'[1].res.ok /\ procs'[1].res.reason = "insufficient-energy"
          /\ procs'[1].res.cost = ExpectedClaimCost(procs'[1].c)
          /\ procs'[1].res.energy = EnergyOf(procs'[1].userId)
          /\ OnlyLazyPlayerCreated]_vars

\* A player who holds a tile and 90 energy was refused the capture of a
\* level-2 tile next to it.
C14_Witness ==
  /\ Last.pc = "done" /\ Last.op = "claim" /\ Last.res.reason = "insufficient-energy"
  /\ Last.res.cost = 2 * hostileClaimCostMultiplier * Scale
  /\ Last.res.energy = (initialPlayerEnergy - freeClaimCost) * Scale
  /\ redis.ownerTiles[Last.userId] # {}
  /\ OwnerOf(Last.c) \notin {NullId, Last.userId}

\* C15: a successful claimTile of a tile that exists and is not the
\* claimer's (a capture, or the claim of an unowned tile) keeps the stored
\* energy, integrity, level and tileType, so a nexus stays a nexus; the
\* owner becomes the claimer and lastUpdate the time of the call.
C15_ClaimKeepsTileBody ==
  [][(/\ Completed("claim") /\ procs'[1].res.ok
      /\ redis.tiles[procs'[1].c].present
      /\ OwnerOf(procs'[1].c) # procs'[1].userId)
       => /\ redis'.tiles[procs'[1].c].present
          /\ redis'.tiles[procs'[1].c].energy = redis.tiles[procs'[1].c].energy
          /\ redis'.tiles[procs'[1].c].integrity = redis.tiles[procs'[1].c].integrity
          /\ redis'.tiles[procs'[1].c].level = redis.tiles[procs'[1].c].level
          /\ redis'.tiles[procs'[1].c].tileType = redis.tiles[procs'[1].c].tileType
          /\ redis'.tiles[procs'[1].c].ownerId = procs'[1].userId
          /\ redis'.tiles[procs'[1].c].lastUpdate = clock
          /\ \A c \in Coords \ {procs'[1].c} : redis'.tiles[c] = redis.tiles[c]]_vars

\* A nexus of level 2 that belonged to another player has been captured
\* after the clock had moved on, and is still a level-2 nexus.
C15_Witness ==
  /\ Last.pc = "done" /\ Last.op = "claim" /\ Last.res.ok /\ Last.res.captured
  /\ redis.tiles[Last.c].tileType = "nexus" /\ redis.tiles[Last.c].level = 2
  /\ redis.tiles[Last.c].ownerId = Last.userId
  /\ redis.tiles[Last.c].lastUpdate > 0

\* C16: repairTile refuses in this order: no tile hash gives tile-not-found;
\* a tile of another player or of nobody gives not-owner; an owner with
\* less than repairCostEnergy gives insufficient-energy.  Each refusal is a
\* returned result, and the tile hashes, chunk activity and the caller's
\* energy are as before the call.
C16_RepairRefusals ==
  [][Completed("repair")
       => /\ procs'[1].pc = "done"
          /\ ~redis.tiles[procs'[1].c].present
               => procs'[1].res.reason = "tile-not-found"
          /\ (redis.tiles[procs'[1].c].present /\ OwnerOf(procs'[1].c) # procs'[1].userId)
               => procs'[1].res.reason = "not-owner"
          /\ (/\ redis.tiles[procs'[1].c].present
              /\ OwnerOf(procs'[1].c) = procs'[1].userId
              /\ EnergyOf(procs'[1].userId) < repairCostEnergy * Scale)
               => /\ procs'[1].res.reason = "insufficient-energy"
                  /\ procs'[1].res.cost = repairCostEnergy * Scale
          /\ procs'[1].res.reason \in {"tile-not-found", "not-owner", "insufficient-energy"}
               => /\ ~procs'[1].res.ok
                  /\ procs'[1].res.energy = EnergyOf(procs'[1].userId)
                  /\ OnlyLazyPlayerCreated]_vars

\* An owner who had spent all energy on a capture was refused the repair of
\* the captured tile.
C16_Witness ==
  /\ Last.pc = "done" /\ Last.op = "repair" /\ Last.res.reason = "insufficient-energy"
  /\ OwnerOf(Last.c) = Last.userId
  /\ redis.players[Last.userId].energy < repairCostEnergy * Scale

\* C17: repairTile by the owner with at least repairCostEnergy succeeds; it
\* sets the stored integrity to min(100, integrity + repairIntegrityGain)
\* and lastUpdate to the time of the call, debits exactly repairCostEnergy,
\* and leaves the tile's owner, alliance fields, energy, level and tileType,
\* every other tile, the index sets and the leaderboard as they were.
C17_RepairEffect ==
  [][Completed("repair")
       => /\ procs'[1].res.ok
               <=> /\ redis.tiles[procs'[1].c].present
                   /\ OwnerOf(procs'[1].c) = procs'[1].userId
                   /\ EnergyOf(procs'[1].userId) >= repairCostEnergy * Scale
          /\ procs'[1].res.ok
               => /\ redis'.tiles =
                       [redis.tiles EXCEPT ![procs'[1].c] =
                          [@ EXCEPT !.integrity = Min2(100 * Scale, @ + repairIntegrityGain * Scale),
                                    !.lastUpdate = clock]]
                  /\ redis'.players[procs'[1].userId].energy
                       = redis.players[procs'[1].userId].energy - repairCostEnergy * Scale
                  /\ procs'[1].res.cost = repairCostEnergy * Scale
                  /\ procs'[1].res.energy = redis'.players[procs'[1].userId].energy
                  /\ redis'.tilesIndex = redis.tilesIndex
                  /\ redis'.chunkTiles = redis.chunkTiles
                  /\ redis'.ownerTiles = redis.ownerTiles
                  /\ redis'.poiIndex = redis.poiIndex
                  /\ redis'.leaderboard = redis.leaderboard]_vars

\* A tile that a tick had decayed to integrity 0 has been repaired to 20.
C17_Witness ==
  /\ Last.pc = "done" /\ Last.op = "repair" /\ Last.res.ok
  /\ redis.tiles[Last.c].integrity = repairIntegrityGain * Scale
  /\ redis.tiles[Last.c].lastUpdate = Last.now

\* C18: a tick over an owned tile whose stored integrity is 0 generates
\* nothing, however much time has passed: the tile keeps its energy and
\* its integrity, and a player all of whose tiles are at integrity 0 has
\* the same player hash after the tick as before.
C18_NoEnergyAtZeroIntegrity ==
  [][Completed("tick")
       => /\ \A c \in Coords :
               (redis.tiles[c].present /\ redis.tiles[c].integrity = 0)
                 => /\ redis'.tiles[c].energy = redis.tiles[c].energy
                    /\ redis'.tiles[c].integrity = 0
          /\ \A u \in Users :
               (\A c \in Coords : OwnerOf(c) = u => redis.tiles[c].integrity = 0)
                 => redis'.players[u] = redis.players[u]]_vars

\* A tile at integrity 0 was captured for 50 and then ticked at a later
\* time (by a fraction of a millisecond at least): its new owner still has
\* the 50 left after the capture.
C18_Witness ==
  /\ Last.pc = "done" /\ Last.op = "tick" /\ Last.nowFrac = 1
  /\ \E c \in Coords :
       /\ redis.tiles[c].present /\ redis.tiles[c].integrity = 0
       /\ redis.tiles[c].lastUpdate = Last.now
       /\ OwnerOf(c) # NullId
       /\ redis.players[OwnerOf(c)].energy
            = (initialPlayerEnergy - hostileClaimCostMultiplier) * Scale

\* C19: rechargeEnergy(now) called again with the same now, nothing else
\* having run since the first call returned, changes no tile hash and no
\* player's energy and returns 0 updated tiles.
C19_RepeatedTickIsNoop ==
  [][(/\ Completed("tick")
      /\ procs[1].pc = "done" /\ procs[1].op = "tick"
      /\ procs[1].now = procs'[1].now /\ procs[1].nowFrac = procs'[1].nowFrac)
       => /\ redis'.tiles = redis.tiles
          /\ \A u \in Users : redis'.players[u].energy = redis.players[u].energy
          /\ procs'[1].res.updated = 0]_vars

\* C20: setAllianceTag(u, tag) writes on tiles only ownerAllianceTag and
\* ownerAllianceColor of the tiles in u's owner set, which become the tag
\* and colour of u's player hash; ownerId, energy, integrity, level,
\* tileType and lastUpdate of every tile, every tile outside the owner
\* set, the index sets and the leaderboard are unchanged; and when the tag
\* is the one u already has, no tile hash changes at all.
C20_TagTouchesOnlyAllianceFields ==
  [][Completed("tag")
       => /\ \A c \in Coords :
               redis'.tiles[c] =
                 IF c \in redis.ownerTiles[procs'[1].userId]
                 THEN [redis.tiles[c] EXCEPT
                         !.ownerAllianceTag = redis'.players[procs'[1].userId].allianceTag,
                         !.ownerAllianceColor = redis'.players[procs'[1].userId].allianceColor]
                 ELSE redis.tiles[c]
          /\ redis'.tilesIndex = redis.tilesIndex
          /\ redis'.chunkTiles = redis.chunkTiles
          /\ redis'.ownerTiles = redis.ownerTiles
          /\ redis'.poiIndex = redis.poiIndex
          /\ redis'.leaderboard = redis.leaderboard
          /\ (/\ redis.players[procs'[1].userId].present
              /\ redis'.players[procs'[1].userId].allianceTag
                   = redis.players[procs'[1].userId].allianceTag)
               => redis'.tiles = redis.tiles]_vars

\* A player who had claimed a tile took the tag FOX at a later time: the
\* tile carries the tag and keeps its earlier lastUpdate.
C20_Witness ==
  /\ Last.pc = "done" /\ Last.op = "tag"
  /\ redis.players[Last.userId].allianceTag = FOX
  /\ redis.players[Last.userId].lastUpdate = clock
  /\ \E c \in redis.ownerTiles[Last.userId] :
       /\ redis.tiles[c].ownerAllianceTag = FOX
       /\ redis.tiles[c].ownerAllianceColor = colorFromAllianceTag(FOX)
       /\ redis.tiles[c].lastUpdate < clock

\* C21: once claimTile and setAllianceTag calls have returned, also calls
\* of one player that overlapped, every owned tile carries the alliance tag
\* and colour of its owner's profile, and every unowned tile carries null
\* for both.
C21_TileTagsFollowProfiles ==
  AllIdle =>
    \A c \in Coords :
      redis.tiles[c].present =>
        IF OwnerOf(c) = NullId
        THEN Tile(c).ownerAllianceTag = NullStr /\ Tile(c).ownerAllianceColor = NullStr
        ELSE /\ redis.tiles[c].ownerAllianceTag = redis.players[OwnerOf(c)].allianceTag
             /\ redis.tiles[c].ownerAllianceColor = redis.players[OwnerOf(c)].allianceColor

\* ------------------------------------------------- raw alliance tag input
\* Strings a client can send as allianceTag: null, "FOX", "", " ", "fo" and
\* " fox ".
RawTagInputs == {NullStr, FOX, EmptyStr, <<32>>, <<102, 111>>, <<32, 102, 111, 120, 32>>}

\* /^[A-Z0-9]{3,4}$/.test(rawTag.trim().toUpperCase())
MatchesTagPattern(rawTag) ==
  LET normalized == ToUpperCase(TrimRight(TrimLeft(rawTag)))
  IN Len(normalized) \in {3, 4} /\ \A i \in 1..Len(normalized) : IsTagChar(normalized[i])

\* The alliance tag of u's profile and the alliance fields of u's tiles.
AllianceFieldsOf(u) ==
  [tag |-> IF redis.players[u].present /\ redis.players[u].allianceTag # EmptyStr
           THEN redis.players[u].allianceTag ELSE NullStr,
   tiles |-> [c \in {d \in Coords : redis.tiles[d].present /\ OwnerOf(d) = u} |->
                <<Tile(c).ownerAllianceTag, Tile(c).ownerAllianceColor>>]]

NextRawTag ==
  \/ \E u \in Actors, c \in Coords : claimTile(u, c)
  \/ \E u \in Actors, tag \in RawTagInputs : setAllianceTag(u, tag)

\* claimTile and setAllianceTag one at a time, the tag being any raw input.
SpecRawTag == Init /\ [][NextRawTag]_vars

\* C22: setAllianceTag with a non-null tag that does not match
\* ^[A-Z0-9]{3,4}$ after trim and upper-casing, the empty and the blank
\* string included, throws and leaves the player's alliance tag and the
\* alliance fields of the player's tiles as they were.
C22_InvalidTagRejected ==
  [][\A u \in Actors, tag \in RawTagInputs :
       (setAllianceTag(u, tag) /\ tag # NullStr /\ ~MatchesTagPattern(tag))
         => /\ procs'[1].res.reason = "throw"
            /\ AllianceFieldsOf(u)' = AllianceFieldsOf(u)]_vars

\* The same for the strings that are not blank after trimming.
C22_NonBlankInvalidTagRejected ==
  [][\A u \in Actors, tag \in RawTagInputs \ {EmptyStr, <<32>>} :
       (setAllianceTag(u, tag) /\ tag # NullStr /\ ~MatchesTagPattern(tag))
         => /\ procs'[1].res.reason = "throw"
            /\ AllianceFieldsOf(u)' = AllianceFieldsOf(u)]_vars

\* ------------------------------------------------------ get_tiles_in_range
\* Centres and radii of the read queries: inside a chunk, on the boundary
\* between chunk -1 and chunk 0, and between two tiles at equal distance.
QueryCenters == {<<-3, 0>>, <<0, 0>>, <<6, 0>>}

QueryRadii == {0, 1, 7, 14}

chunkKeysForRange_CenterOnly(centerQ, centerR, radius) ==
  <<<<toChunkIndex(centerQ), toChunkIndex(centerR)>>>>

\* The chunk keys in the order of the two nested loops.
chunkKeysForRange(centerQ, centerR, radius) ==
  LET minChunkQ == toChunkIndex(centerQ - radius)
      maxChunkQ == toChunkIndex(centerQ + radius)
      minChunkR == toChunkIndex(centerR - radius)
      maxChunkR == toChunkIndex(centerR + radius)
      countR == maxChunkR - minChunkR + 1
  IN [i \in 1..((maxChunkQ - minChunkQ + 1) * countR) |->
        <<minChunkQ + ((i - 1) \div countR), minChunkR + ((i - 1) % countR)>>]

\* uniqueMembers.add(member) for each member of each group in turn.
RECURSIVE UniqueMembers(_, _)
UniqueMembers(memberGroups, uniqueMembers) ==
  IF memberGroups = <<>> THEN uniqueMembers
  ELSE IF Head(memberGroups) = <<>> THEN UniqueMembers(Tail(memberGroups), uniqueMembers)
  ELSE UniqueMembers(
         <<Tail(Head(memberGroups))>> \o Tail(memberGroups),
         IF \E i \in 1..Len(uniqueMembers) : uniqueMembers[i] = Head(Head(memberGroups))
         THEN uniqueMembers
         ELSE Append(uniqueMembers, Head(Head(memberGroups))))

\* tiles.sort with the comparator distance, then q, then r.  The sort is
\* stable: of the elements no other precedes, the first comes first.
RECURSIVE SortInRange(_, _)
SortInRange(center, tiles) ==
  IF tiles = <<>> THEN <<>>
  ELSE LET Compare(a, b) ==
             LET distanceDiff == hex_distance(center, <<a.q, a.r>>)
                                   - hex_distance(center, <<b.q, b.r>>)
             IN IF distanceDiff # 0 THEN distanceDiff
                ELSE IF a.q # b.q THEN a.q - b.q
                ELSE a.r - b.r
           first == CHOOSE i \in 1..Len(tiles) :
                      /\ \A j \in 1..Len(tiles) : Compare(tiles[i], tiles[j]) <= 0
                      /\ \A j \in 1..(i - 1) : Compare(tiles[j], tiles[i]) > 0
       IN <<tiles[first]>>
            \o SortInRange(center, SubSeq(tiles, 1, first - 1) \o SubSeq(tiles, first + 1, Len(tiles)))

\* The array get_tiles_in_range returns on store st.
TilesInRange(st, center, radius) ==
  LET chunkKeys == chunkKeysForRange(center[1], center[2], radius)
      \* sMembers of a key that does not exist is empty
      memberGroups == [i \in 1..Len(chunkKeys) |->
                         IF chunkKeys[i] \in DOMAIN st.chunkTiles
                         THEN SortMembers(st.chunkTiles[chunkKeys[i]]) ELSE <<>>]
      uniqueMembers == UniqueMembers(memberGroups, <<>>)
      inRange == SelectSeq(uniqueMembers, LAMBDA m : hex_distance(center, m) <= radius)
      parsed == [i \in 1..Len(inRange) |-> parseTile(inRange[i], st.tiles[inRange[i]])]
      tiles == SelectSeq(parsed, LAMBDA tile : tile.present)
  IN SortInRange(center, tiles)

\* A read query leaves the store alone and returns res.
Query(l, res) ==
  /\ opsLeft > 0
  /\ procs' = [procs EXCEPT ![1] = [l EXCEPT !.pc = "done", !.res = res]]
  /\ opsLeft' = opsLeft - 1
  /\ UNCHANGED <<redis, clock, spent, advancesLeft, postgres, server, limiter, sockets>>

\* ------------------------------------------------------- get_radar_summary
buildRadarHotspots_Unsorted(chunkActivityHash, chunkOrder, center, radius) ==
  LET listed == SelectSeq(chunkOrder, LAMBDA k :
                  /\ chunkActivityHash[k] > 0
                  /\ hex_distance(center, <<k[1] * chunkSize + (chunkSize \div 2),
                                            k[2] * chunkSize + (chunkSize \div 2)>>)
                       <= radius + chunkSize)
  IN [i \in 1..Min2(maxRadarHotspots, Len(listed)) |->
        [q |-> listed[i][1] * chunkSize + (chunkSize \div 2),
         r |-> listed[i][2] * chunkSize + (chunkSize \div 2),
         activity |-> chunkActivityHash[listed[i]]]]

\* The fields of chunk:activity come in the order chunkOrder; a chunk never
\* recorded has no field and reads here as activity 0, which is dropped.
buildRadarHotspots(chunkActivityHash, chunkOrder, center, radius) ==
  LET listed == SelectSeq(chunkOrder, LAMBDA k :
                  /\ chunkActivityHash[k] > 0
                  /\ hex_distance(center, <<k[1] * chunkSize + (chunkSize \div 2),
                                            k[2] * chunkSize + (chunkSize \div 2)>>)
                       <= radius + chunkSize)
      \* hotspots.sort((a, b) => b.activity - a.activity), stable
      sorted == CHOOSE o \in Orders(1..Len(listed)) :
                  \A i, j \in DOMAIN o :
                    i < j => \/ chunkActivityHash[listed[o[i]]] > chunkActivityHash[listed[o[j]]]
                             \/ /\ chunkActivityHash[listed[o[i]]] = chunkActivityHash[listed[o[j]]]
                                /\ o[i] < o[j]
  IN [i \in 1..Min2(maxRadarHotspots, Len(listed)) |->
        [q |-> listed[sorted[i]][1] * chunkSize + (chunkSize \div 2),
         r |-> listed[sorted[i]][2] * chunkSize + (chunkSize \div 2),
         activity |-> chunkActivityHash[listed[sorted[i]]]]]

\* What get_radar_summary returns on store st when the two sets hand out
\* their members in the order memberOrder of their coordinates.
RadarSummary(st, userId, center, radius, memberOrder, chunkOrder) ==
  LET ownerMembers == SelectSeq(memberOrder, LAMBDA c : c \in st.ownerTiles[userId])
      nearBases == SelectSeq(ownerMembers, LAMBDA c : hex_distance(center, c) <= radius)
      poiMembers == SelectSeq(memberOrder, LAMBDA c :
                      \E m \in st.poiIndex : m[2] = c[1] /\ m[3] = c[2])
      poiOf(c) == CHOOSE m \in st.poiIndex :
                    /\ m[2] = c[1] /\ m[3] = c[2]
                    /\ \A n \in st.poiIndex : (n[2] = c[1] /\ n[3] = c[2]) => m[4] <= n[4]
      nearCores == SelectSeq(poiMembers, LAMBDA c :
                     poiOf(c)[1] = "nexus" /\ hex_distance(center, c) <= radius)
  IN [NoResult EXCEPT
        !.ok = TRUE,
        !.playerBases = [i \in 1..Min2(Max2(1, maxRadarBasePoints), Len(nearBases)) |->
                           [q |-> nearBases[i][1], r |-> nearBases[i][2], ownerId |-> userId]],
        !.nexusCores = [i \in 1..Min2(Max2(1, maxRadarNexusPoints), Len(nearCores)) |->
                          [q |-> nearCores[i][1], r |-> nearCores[i][2],
                           level |-> Max2(1, poiOf(nearCores[i])[4])]],
        !.hotspots = buildRadarHotspots(st.chunkActivity, chunkOrder, center, radius)]

get_radar_summary(userId, center, radius, memberOrder, chunkOrder) ==
  Query([IdleLocal EXCEPT !.op = "radar", !.userId = userId, !.c = center, !.radius = radius],
        IF radius <= 0 THEN [NoResult EXCEPT !.reason = "throw"]
        ELSE RadarSummary(redis, userId, center, radius, memberOrder, chunkOrder))

\* limit = 0 and limit = 10^6 are the two ends the clamp is for.
Limits == {0, 1, 2, 1000000}

getLeaderboard(limit, ties) == Handle(BeginLeaderboard(limit, ties))

get_tiles_in_range(center, radius) ==
  Query([IdleLocal EXCEPT !.op = "range", !.c = center, !.radius = radius],
        [NoResult EXCEPT !.ok = TRUE, !.tiles = TilesInRange(redis, center, radius)])

NextQuery ==
  \/ \E u \in Actors, c \in Coords : claimTile(u, c)
  \/ \E c \in Coords, level \in Levels : registerNexus(c, level)
  \/ \E center \in QueryCenters, radius \in QueryRadii : get_tiles_in_range(center, radius)
  \/ \E limit \in Limits, ties \in Orders(Users) : getLeaderboard(limit, ties)
  \/ \E u \in Actors, center \in QueryCenters, radius \in QueryRadii,
        memberOrder \in Orders(Coords), chunkOrder \in Orders(ChunkIds) :
          get_radar_summary(u, center, radius, memberOrder, chunkOrder)

\* Claims and nexus registrations followed by read queries, one at a time.
SpecQuery == InitCalls /\ [][NextQuery]_vars

upsertTiles_DoNothing(rows, tiles) ==
  rows \cup {tiles[i] : i \in {j \in 1..Len(tiles) :
                                 \A row \in rows : <<row.q, row.r>> # <<tiles[j].q, tiles[j].r>>}}

\* INSERT ... ON CONFLICT (q, r) DO UPDATE SET every other column: the row
\* of each tile's (q, r) is replaced by the tile.  A row has the columns of
\* a TileState.
upsertTiles(rows, tiles) ==
  {row \in rows : \A i \in 1..Len(tiles) : <<row.q, row.r>> # <<tiles[i].q, tiles[i].r>>}
    \cup {tiles[i] : i \in 1..Len(tiles)}

RECURSIVE FlushPush_NoFinal(_, _)
FlushPush_NoFinal(pg, l) ==
  IF l.pending # <<>>
  THEN IF Len(l.batch) + 1 >= snapshotBatchSize
       THEN Out(pg, [l EXCEPT !.batch = Append(@, Head(l.pending)),
                              !.pending = Tail(@), !.pc = "f_upsert"])
       ELSE FlushPush_NoFinal(pg, [l EXCEPT !.batch = Append(@, Head(l.pending)),
                                            !.pending = Tail(@)])
  ELSE IF l.cursor # 0 THEN Out(pg, [l EXCEPT !.pc = "f_scan"])
  ELSE Finish(pg, l, [NoResult EXCEPT !.ok = TRUE, !.persisted = l.persisted,
                                      !.upserts = l.upserts, !.scans = l.scans])

RECURSIVE FlushPush_WideBatch(_, _)
FlushPush_WideBatch(pg, l) ==
  IF l.pending # <<>>
  THEN IF Len(l.batch) + 1 >= snapshotBatchSize + 1
       THEN Out(pg, [l EXCEPT !.batch = Append(@, Head(l.pending)),
                              !.pending = Tail(@), !.pc = "f_upsert"])
       ELSE FlushPush_WideBatch(pg, [l EXCEPT !.batch = Append(@, Head(l.pending)),
                                              !.pending = Tail(@)])
  ELSE IF l.cursor # 0 THEN Out(pg, [l EXCEPT !.pc = "f_scan"])
  ELSE IF l.batch # <<>> THEN Out(pg, [l EXCEPT !.pc = "f_upsert"])
  ELSE Finish(pg, l, [NoResult EXCEPT !.ok = TRUE, !.persisted = l.persisted,
                                      !.upserts = l.upserts, !.scans = l.scans])

\* The code between two awaited calls of the flush: tiles go into the batch
\* one by one until it is full (the next call is upsertTiles); when the
\* page is used up the scan goes on, and after the last page what is left
\* of the batch is upserted.
RECURSIVE FlushPush(_, _)
FlushPush(pg, l) ==
  IF l.pending # <<>>
  THEN IF Len(l.batch) + 1 >= snapshotBatchSize
       THEN Out(pg, [l EXCEPT !.batch = Append(@, Head(l.pending)),
                              !.pending = Tail(@), !.pc = "f_upsert"])
       ELSE FlushPush(pg, [l EXCEPT !.batch = Append(@, Head(l.pending)), !.pending = Tail(@)])
  ELSE IF l.cursor # 0 THEN Out(pg, [l EXCEPT !.pc = "f_scan"])
  ELSE IF l.batch # <<>> THEN Out(pg, [l EXCEPT !.pc = "f_upsert"])
  ELSE Finish(pg, l, [NoResult EXCEPT !.ok = TRUE, !.persisted = l.persisted,
                                      !.upserts = l.upserts, !.scans = l.scans])

\* One awaited call of the flush on store st and table pg: an sScan page of
\* tiles:index, the hGetAll of the page's members, or upsertTiles.  The
\* outcome is the table and the locals.
FlushStep(st, pg, l) ==
  CASE l.pc = "f_scan" ->
         LET response == sScan(st.tilesIndex, l.cursor, snapshotBatchSize)
         IN IF Len(response.members) > 0
            THEN Out(pg, [l EXCEPT !.cursor = response.cursor, !.scans = @ + 1,
                                   !.members = response.members, !.pc = "f_load"])
            ELSE FlushPush(pg, [l EXCEPT !.cursor = response.cursor, !.scans = @ + 1])
    [] l.pc = "f_load" ->
         FlushPush(pg, [l EXCEPT !.members = <<>>,
                                 !.pending = SelectSeq([i \in 1..Len(l.members) |->
                                                          parseTile(l.members[i], st.tiles[l.members[i]])],
                                                       LAMBDA tile : tile.present)])
    [] l.pc = "f_upsert" ->
         FlushPush([pg EXCEPT !.rows = upsertTiles(@, l.batch)],
                   [l EXCEPT !.persisted = @ + Len(l.batch),
                             !.upserts = Append(@, l.batch),
                             !.batch = <<>>])

\* flushSnapshotToPostgres from its call to its return, nothing in between.
RECURSIVE FlushRun(_, _, _)
FlushRun(st, pg, l) ==
  IF ~Running(l) THEN Out(pg, l)
  ELSE CHOOSE out \in {FlushRun(st, n.st, n.l) : n \in {FlushStep(st, pg, l)}} : TRUE

\* Without a snapshot repository the flush returns 0 at once.  after: the
\* operation that returned before this flush was called (a history value).
BeginFlush(pg, after) ==
  [IdleLocal EXCEPT !.op = "flush", !.pc = IF pg.configured THEN "f_scan" ELSE "done",
                    !.after = after, !.res = [NoResult EXCEPT !.ok = TRUE]]

flushSnapshotToPostgres ==
  /\ opsLeft > 0
  /\ \E n \in {FlushRun(redis, postgres, BeginFlush(postgres, procs[1].op))} :
        /\ postgres' = n.st
        /\ procs' = [procs EXCEPT ![1] = n.l]
  /\ opsLeft' = opsLeft - 1
  /\ UNCHANGED <<redis, clock, spent, advancesLeft, server, limiter, sockets>>

\* A server with or without a snapshot repository.
InitFlush ==
  /\ redis = EmptyStore
  /\ procs = [p \in Procs |-> IdleLocal]
  /\ clock = 0
  /\ spent = [u \in Users |-> 0]
  /\ opsLeft = MaxFlushOps
  /\ advancesLeft = MaxAdvances
  /\ postgres \in {[configured |-> b, rows |-> {}] : b \in BOOLEAN}
  /\ server = NoLoops
  /\ limiter = NoLimits
  /\ sockets = NoSockets

NextFlush ==
  \/ \E u \in Actors, c \in Coords : claimTile(u, c)
  \/ flushSnapshotToPostgres

\* Claims with flushes between them.
SpecFlush == InitFlush /\ [][NextFlush]_vars

\* C26: a flush run alone passes every tile of tiles:index to upsertTiles
\* exactly once, in batches of exactly snapshotBatchSize tiles but for a
\* last, non-empty one, and returns the number of tiles passed; without a
\* snapshot repository it returns 0 and does not scan.
C26_FlushBatches ==
  (Last.pc = "done" /\ Last.op = "flush") =>
    LET upserts == Last.res.upserts
        passed == {<<i, j>> \in (1..Len(upserts)) \X (1..snapshotBatchSize) : j <= Len(upserts[i])}
    IN IF ~postgres.configured
       THEN Last.res.persisted = 0 /\ Last.res.scans = 0 /\ upserts = <<>>
       ELSE /\ \A c \in redis.tilesIndex :
                 Cardinality({x \in passed : upserts[x[1]][x[2]] = Tile(c)}) = 1
            /\ Cardinality(passed) = Cardinality(redis.tilesIndex)
            /\ \A i \in 1..Len(upserts) :
                 /\ Len(upserts[i]) >= 1
                 /\ Len(upserts[i]) <= snapshotBatchSize
                 /\ i < Len(upserts) => Len(upserts[i]) = snapshotBatchSize
            /\ Last.res.persisted = Cardinality(redis.tilesIndex)

\* Three tiles flushed: a full batch and a last batch of one.
C26_Witness ==
  /\ Last.pc = "done" /\ Last.op = "flush"
  /\ Cardinality(redis.tilesIndex) = 3
  /\ Len(Last.res.upserts) = 2
  /\ Len(Last.res.upserts[1]) = snapshotBatchSize
  /\ Len(Last.res.upserts[2]) = 1
  /\ Last.res.persisted = 3

\* C27: a flush that follows a flush with no change to the store between
\* them leaves the rows as the first left them: one row per (q, r), each
\* the tile as it is in the store.
C27_FlushIdempotent ==
  [][(procs[1].op = "flush" /\ Completed("flush") /\ postgres.configured) =>
       /\ postgres'.rows = postgres.rows
       /\ postgres'.rows = {Tile(c) : c \in redis.tilesIndex}
       /\ \A row1, row2 \in postgres'.rows :
            <<row1.q, row1.r>> = <<row2.q, row2.r>> => row1 = row2]_vars

\* Two flushes in a row after a tile, whose row an earlier flush had
\* written, has changed hands.
C27_Witness ==
  /\ Last.pc = "done" /\ Last.op = "flush" /\ Last.after = "flush"
  /\ postgres.configured
  /\ opsLeft = 0
  /\ Last.res.persisted = 1
  /\ \E row \in postgres.rows : row.ownerId = "b" /\ spent["a"] > 0

\* ------------------------------------------- the recharge and snapshot loops
\* The setInterval callback of a loop: process 1 runs the sweeps of the
\* recharge loop, process 2 those of the snapshot loop, one at a time.
Interval(loop) ==
  /\ server.phase # "exited"
  /\ \/ /\ loop = "recharge" /\ server.rechargeTimer /\ ~Running(procs[1])
        /\ procs' = [procs EXCEPT ![1] = BeginTick(clock, 0)]
     \/ /\ loop = "snapshot" /\ server.snapshotTimer /\ ~Running(procs[2])
        /\ procs' = [procs EXCEPT ![2] = BeginFlush(postgres, procs[2].op)]
  /\ UNCHANGED <<redis, clock, spent, opsLeft, advancesLeft, postgres, server, limiter, sockets>>

\* The awaited call of the sweep of process p resolves.  A call to the
\* store needs the connection open.
SweepCall(p) ==
  /\ server.phase # "exited"
  /\ Running(procs[p])
  /\ \/ /\ procs[p].op = "tick" /\ server.redisOpen
        /\ \E n \in {Step(redis, procs[p], clock)} :
              /\ redis' = n.st
              /\ procs' = [procs EXCEPT ![p] = n.l]
        /\ UNCHANGED postgres
     \/ /\ procs[p].op = "flush" /\ (server.redisOpen \/ procs[p].pc = "f_upsert")
        /\ \E n \in {FlushStep(redis, postgres, procs[p])} :
              /\ postgres' = n.st
              /\ procs' = [procs EXCEPT ![p] = n.l]
        /\ UNCHANGED redis
  /\ UNCHANGED <<clock, spent, opsLeft, advancesLeft, server, limiter, sockets>>

SweepFails_StopsLoop(p) ==
  /\ server.phase # "exited"
  /\ Running(procs[p])
  /\ server.failuresLeft > 0 \/ (~server.redisOpen /\ procs[p].pc # "f_upsert")
  /\ procs' = [procs EXCEPT ![p] = Finish(redis, procs[p], [NoResult EXCEPT !.reason = "throw"]).l]
  /\ server' = [server EXCEPT !.errors = @ + 1,
                              !.failuresLeft = IF server.redisOpen THEN @ - 1 ELSE @,
                              !.rechargeTimer = @ /\ procs[p].op # "tick",
                              !.snapshotTimer = @ /\ procs[p].op # "flush"]
  /\ UNCHANGED <<redis, clock, spent, opsLeft, advancesLeft, postgres, limiter, sockets>>

\* The awaited call of the sweep of process p rejects: any call may while
\* failures are left, a store call does once the connection is closed.  The
\* sweep's promise rejects and its catch hands the error to
\* onBackgroundError; the timer is not touched.
SweepFails(p) ==
  /\ server.phase # "exited"
  /\ Running(procs[p])
  /\ server.failuresLeft > 0 \/ (~server.redisOpen /\ procs[p].pc # "f_upsert")
  /\ procs' = [procs EXCEPT ![p] = Finish(redis, procs[p], [NoResult EXCEPT !.reason = "throw"]).l]
  /\ server' = [server EXCEPT !.errors = @ + 1,
                              !.failuresLeft = IF server.redisOpen THEN @ - 1 ELSE @]
  /\ UNCHANGED <<redis, clock, spent, opsLeft, advancesLeft, postgres, limiter, sockets>>

\* shutdown(signal): both loops are stopped at once; after the socket and
\* HTTP servers have closed the store connection is quit; then the process
\* exits, and whatever is still in flight ends with it.
shutdown ==
  /\ \/ /\ server.phase = "up"
        /\ server' = [server EXCEPT !.phase = "stopping",
                                    !.snapshotTimer = FALSE, !.rechargeTimer = FALSE]
     \/ /\ server.phase = "stopping"
        /\ server' = [server EXCEPT !.phase = "quit", !.redisOpen = FALSE]
     \/ /\ server.phase = "quit"
        /\ server' = [server EXCEPT !.phase = "exited"]
  /\ UNCHANGED <<redis, procs, clock, spent, opsLeft, advancesLeft, postgres, limiter, sockets>>

\* The server once index.ts has started both loops.
InitLoops ==
  /\ redis = EmptyStore
  /\ procs = [p \in Procs |-> IdleLocal]
  /\ clock = 0
  /\ spent = [u \in Users |-> 0]
  /\ opsLeft = MaxLoopClaims
  /\ advancesLeft = MaxAdvances
  /\ postgres = [configured |-> TRUE, rows |-> {}]
  /\ server = [NoLoops EXCEPT !.rechargeTimer = TRUE, !.snapshotTimer = TRUE,
                              !.failuresLeft = MaxFailures]
  /\ limiter = NoLimits
  /\ sockets = NoSockets

NextLoops ==
  \/ \E u \in Actors, c \in Coords :
       server.phase = "up" /\ ~Running(procs[1]) /\ claimTile(u, c)
  \/ \E loop \in {"recharge", "snapshot"} : Interval(loop)
  \/ \E p \in Procs : SweepCall(p)
  \/ \E p \in Procs : SweepFails(p)
  \/ shutdown

SpecLoops == InitLoops /\ [][NextLoops]_vars

\* The timers fire as long as they are set, and an awaited call resolves or
\* rejects; the shutdown signal may never come.
SpecLoopsFair ==
  /\ SpecLoops
  /\ \A loop \in {"recharge", "snapshot"} : WF_vars(Interval(loop))
  /\ \A p \in Procs : WF_vars(SweepCall(p) \/ SweepFails(p))

\* C28: a sweep of either loop that fails hands its error to
\* onBackgroundError and leaves the loop running: unless shutdown stops the
\* loop, the next interval starts a new sweep.
C28_LoopSurvivesFailure ==
  /\ [][\A p \in Procs :
          (Running(procs[p]) /\ procs'[p].pc = "done" /\ procs'[p].res.reason = "throw")
            => server'.errors = server.errors + 1]_vars
  /\ \A p \in Procs :
       (procs[p].pc = "done" /\ procs[p].res.reason = "throw")
         ~> (Running(procs[p]) \/ server.phase # "up")

\* A sweep has failed, the error sink was called, and the loop is not
\* stopped.
C28_Witness ==
  /\ procs[1].pc = "done" /\ procs[1].op = "tick" /\ procs[1].res.reason = "throw"
  /\ server.errors = 1
  /\ server.phase = "up"
  /\ server.rechargeTimer

\* C29: once shutdown has begun no sweep starts, and the store connection
\* is closed only when no sweep is in flight, so that a sweep in flight at
\* shutdown completes without error.
C29_CleanShutdown ==
  [][/\ server.phase # "up" => \A p \in Procs : Running(procs'[p]) => Running(procs[p])
     /\ ~server'.redisOpen => \A p \in Procs : ~Running(procs'[p])]_vars

\* Once shutdown has begun no sweep starts.
C29_NoSweepStartsAfterShutdown ==
  [][server.phase # "up" => \A p \in Procs : Running(procs'[p]) => Running(procs[p])]_vars

\* --------------------------------------------------- attachActionRateLimiter
cooldownForEvent(event) ==
  CASE event = "claim_tile" -> claimTileMs
    [] event = "repair_tile" -> repairTileMs
    [] event = "get_radar_data" -> getRadarDataMs

\* The socket.use middleware on a packet of a rate-limited event, and, when
\* it calls next(), the event's handler with its call of the engine.  The
\* store is the socket's own: attachActionRateLimiter is given no store
\* and makes a new InMemoryRateLimitStore for every connection.
Packet(socket, event, c) ==
  LET userId == SocketUser[socket]
      now == clock
      rateKey == <<userId, event>>
      ttlMs == Max2(Max2(getRadarDataMs, claimTileMs), Max2(repairTileMs, getRadarDataMs)) * 20
      sweeps == now - limiter.lastSweepAt[socket] >= 60000
      swept == IF sweeps
               THEN [k \in DOMAIN limiter.store[socket] |->
                       IF limiter.store[socket][k] # -1 /\ now - limiter.store[socket][k] > ttlMs
                       THEN -1 ELSE limiter.store[socket][k]]
               ELSE limiter.store[socket]
      lastSweepAt == IF sweeps THEN now ELSE limiter.lastSweepAt[socket]
      lastActionAt == swept[rateKey]
  IN IF lastActionAt # -1 /\ now - lastActionAt < cooldownForEvent(event)
     THEN /\ limiter' = [limiter EXCEPT !.store[socket] = swept,
                                        !.lastSweepAt[socket] = lastSweepAt,
                                        !.ack[socket] = "rate-limited",
                                        !.rejected = (@ + 1) % 2]
          /\ UNCHANGED <<redis, procs, clock, spent, opsLeft, advancesLeft, postgres, server, sockets>>
     ELSE /\ opsLeft > 0
          /\ limiter' = [limiter EXCEPT !.store[socket] = [swept EXCEPT ![rateKey] = now],
                                        !.lastSweepAt[socket] = lastSweepAt,
                                        !.ack[socket] = "handled",
                                        !.reached[rateKey] = [count |-> @.count + 1, at |-> now]]
          /\ \/ /\ event = "claim_tile"
                /\ \E n \in {Run(redis, BeginClaim(userId, c, clock), clock)} :
                      redis' = n.st /\ procs' = [procs EXCEPT ![1] = n.l] /\ spent' = SpentAfter(n.l)
             \/ /\ event = "repair_tile"
                /\ \E n \in {Run(redis, BeginRepair(userId, c, clock), clock)} :
                      redis' = n.st /\ procs' = [procs EXCEPT ![1] = n.l] /\ spent' = SpentAfter(n.l)
             \/ /\ event = "get_radar_data"
                /\ \E chunkOrder \in Orders(ChunkIds) :
                      procs' = [procs EXCEPT ![1] =
                                  [IdleLocal EXCEPT !.op = "radar", !.pc = "done", !.userId = userId,
                                                    !.c = c, !.radius = 14,
                                                    !.res = RadarSummary(redis, userId, c, 14,
                                                                         MemberOrder, chunkOrder)]]
                /\ UNCHANGED <<redis, spent>>
          /\ opsLeft' = opsLeft - 1
          /\ UNCHANGED <<clock, advancesLeft, postgres, server, sockets>>

InitLimiter ==
  /\ redis = EmptyStore
  /\ procs = [p \in Procs |-> IdleLocal]
  /\ clock = 0
  /\ spent = [u \in Users |-> 0]
  /\ opsLeft = MaxPackets
  /\ advancesLeft = MaxGaps
  /\ postgres = [configured |-> TRUE, rows |-> {}]
  /\ server = NoLoops
  /\ limiter = NoLimits
  /\ sockets = NoSockets

NextLimiter ==
  \/ \E socket \in DOMAIN SocketUser, event \in LimitedEvents, c \in Coords : Packet(socket, event, c)
  \* the time that passes between two packets, in ms
  \/ \E d \in {100, 400, 1500, 60000} : AdvanceClock(d)

\* Packets of rate-limited events arriving on three sockets as time passes.
SpecLimiter == InitLimiter /\ [][NextLimiter]_vars

\* C30: two actions of the same user and event that reach the engine are
\* at least the event's cooldown apart (claim_tile 500 ms, repair_tile 200
\* ms, get_radar_data 2000 ms), on whatever sockets they arrive; a packet
\* that comes sooner is acknowledged as failed and reaches no handler.
C30_PerUserCooldown ==
  [][/\ \A k \in Actors \X LimitedEvents :
          (limiter'.reached[k].count # limiter.reached[k].count /\ limiter.reached[k].count > 0)
            => limiter'.reached[k].at - limiter.reached[k].at >= cooldownForEvent(k[2])
     /\ limiter'.rejected # limiter.rejected
          => /\ UNCHANGED <<redis, procs>>
             /\ limiter'.reached = limiter.reached
             /\ \E socket \in DOMAIN SocketUser :
                  /\ limiter'.ack[socket] = "rate-limited"
                  /\ limiter'.store[socket] = limiter.store[socket]
                       \/ limiter'.lastSweepAt[socket] = clock]_vars

\* The same for the actions arriving on one socket.
C30_PerSocketCooldown ==
  [][\A socket \in DOMAIN SocketUser, event \in LimitedEvents :
       LET rateKey == <<SocketUser[socket], event>>
       IN (limiter'.store[socket][rateKey] # limiter.store[socket][rateKey]
             /\ limiter.store[socket][rateKey] # -1 /\ limiter'.store[socket][rateKey] # -1)
            => limiter'.store[socket][rateKey] - limiter.store[socket][rateKey]
                 >= cooldownForEvent(event)]_vars

\* ------------------------------------------------------- tile lifecycle
\* C31: a tile hash that exists stays; a tile that has an owner keeps
\* having some owner; and the ownerId of a tile changes only in a step of
\* a claimTile call of the new owner, never in a step of repairTile,
\* registerNexus, setAllianceTag or a tick.
C31_TileLifecycle ==
  [][\A c \in Coords :
       /\ redis.tiles[c].present => redis'.tiles[c].present
       /\ (redis.tiles[c].present /\ OwnerOf(c) # NullId)
            => parseTile(c, redis'.tiles[c]).ownerId # NullId
       /\ parseTile(c, redis'.tiles[c]).ownerId # OwnerOf(c)
            => \E p \in Procs :
                 /\ procs'[p] # procs[p]
                 /\ procs'[p].op = "claim"
                 /\ procs'[p].userId = parseTile(c, redis'.tiles[c]).ownerId]_vars

\* ------------------------------------------------------- chunk activity
\* C32: the counter of a chunk grows by 3 with each capture in the chunk,
\* by 1 with each other successful claim of a tile the claimer did not own,
\* by 2 with each successful repair, and by nothing else: not with a
\* self-claim, a refused claim or repair, registerNexus, setAllianceTag or
\* a tick.  Starting from 0 it is therefore the weighted count of these
\* calls and never decreases.
C32_ChunkActivityCounts ==
  [][\A k \in ChunkIds :
       redis'.chunkActivity[k] - redis.chunkActivity[k] =
         IF procs'[1].pc = "done" /\ procs'[1].res.ok /\ opsLeft' = opsLeft - 1
              /\ chunkKeyForTile(procs'[1].c) = k
         THEN CASE procs'[1].op = "repair" -> 2
                [] procs'[1].op = "claim" /\ OwnerOf(procs'[1].c) = procs'[1].userId -> 0
                [] procs'[1].op = "claim" /\ OwnerOf(procs'[1].c) # NullId -> 3
                [] procs'[1].op = "claim" -> 1
                [] OTHER -> 0
         ELSE 0]_vars

\* A tile has been claimed, captured and then repaired by its new owner:
\* its chunk counts 1 + 3 + 2.
C32_Witness ==
  /\ Last.pc = "done" /\ Last.op = "repair" /\ Last.res.ok
  /\ redis.chunkActivity[chunkKeyForTile(Last.c)] = 6

\* ------------------------------------------------- ticks of a seeded store
\* The store as the tick tests seed it: players a and b with 50 energy and
\* the alliance tags tagA and tagB, the tile (0,0) written with the given
\* owner, energy, integrity and lastUpdate (by registerNexus when it has no
\* owner), and beside it the tile (-1,0) of owner2 with energy 0, full
\* integrity and lastUpdate 0, or no such tile when owner2 is "none".
SeedTile(ownerId, tag, energy, integrity, lastUpdate) ==
  [present |-> TRUE, ownerId |-> IF ownerId = NullId THEN "" ELSE ownerId,
   ownerAllianceTag |-> IF ownerId = NullId \/ tag = NullStr THEN EmptyStr ELSE tag,
   ownerAllianceColor |-> IF ownerId = NullId \/ tag = NullStr THEN EmptyStr
                          ELSE colorFromAllianceTag(tag),
   energy |-> energy, lastUpdate |-> lastUpdate, integrity |-> integrity,
   level |-> 1, tileType |-> IF ownerId = NullId THEN "nexus" ELSE "normal"]

SeedStore(owner1, owner2, tagA, tagB, energy, integrity, lastUpdate) ==
  LET tagOf == [u \in Users |-> IF u = "a" THEN tagA ELSE IF u = "b" THEN tagB ELSE NullStr]
      tiles == [c \in Coords |->
                  IF c = <<0, 0>>
                  THEN SeedTile(owner1, IF owner1 = NullId THEN NullStr ELSE tagOf[owner1],
                                energy, integrity, lastUpdate)
                  ELSE IF c = <<-1, 0>> /\ owner2 # "none"
                       THEN SeedTile(owner2, tagOf[owner2], 0, 100 * Scale, 0)
                       ELSE NoTileHash]
      owned == [u \in Users |-> {c \in Coords : tiles[c].present /\ tiles[c].ownerId = u}]
  IN [tiles |-> tiles,
      tilesIndex |-> {c \in Coords : tiles[c].present},
      chunkTiles |-> [k \in ChunkIds |->
                        {c \in Coords : tiles[c].present /\ chunkKeyForTile(c) = k}],
      ownerTiles |-> owned,
      poiIndex |-> {poiMember(parseTile(c, tiles[c])) :
                      c \in {d \in Coords : tiles[d].present /\ tiles[d].tileType = "nexus"}},
      leaderboard |-> [u \in Users |-> Cardinality(owned[u])],
      chunkActivity |-> [k \in ChunkIds |-> 0],
      players |-> [u \in Users |->
                     IF u \in Actors
                     THEN PlayerHashOf([userId |-> u, displayName |-> u,
                                        allianceTag |-> tagOf[u],
                                        allianceColor |-> IF tagOf[u] = NullStr THEN NullStr
                                                          ELSE colorFromAllianceTag(tagOf[u]),
                                        energy |-> 50 * Scale, lastUpdate |-> 0])
                     ELSE NoPlayerHash]]

InitSeeded ==
  /\ \E owner1 \in {NullId, "a"}, owner2 \in {"none", "a", "b"},
        tagA \in {NullStr, FOX}, tagB \in {NullStr, FOX, <<79, 87, 76>>},
        energy \in {0, 999900, maxEnergy * Scale}, integrity \in {0, Scale, 100 * Scale},
        lastUpdate \in {0, 60000} :
       redis = SeedStore(owner1, owner2, tagA, tagB, energy, integrity, lastUpdate)
  /\ procs = [p \in Procs |-> IdleLocal]
  /\ clock = 0
  /\ spent = [u \in Users |-> 0]
  /\ opsLeft = MaxSeededTicks
  /\ advancesLeft = MaxAdvances
  /\ postgres = [configured |-> TRUE, rows |-> {}]
  /\ server = NoLoops
  /\ limiter = NoLimits
  /\ sockets = NoSockets

NextSeeded ==
  \/ \E nowFrac \in NowFractions : rechargeEnergy(nowFrac)
  \/ \E d \in ClockSteps : AdvanceClock(d)

\* rechargeEnergy called over a seeded store, one call at a time.
SpecSeeded == InitSeeded /\ [][NextSeeded]_vars

\* The tick of a tile as the written algorithm has it, for a call of
\* rechargeEnergy at now + nowFrac / FracDen ms that stores storedTime
\* (in 1/FracDen ms) as the time of the update: with elapsed the time
\* since the tile's lastUpdate, a tile with elapsed 0 keeps its hash;
\* otherwise integrity falls by elapsed minutes x integrityDecayPerMinute,
\* the energy grows by the active seconds x energyRechargePerSecond x a
\* bonus of 1 or allianceNeighborBonusMultiplier, both rounded to four
\* decimals and clamped, and nothing else of the tile changes.
TickedAsWritten(before, after, c, now, nowFrac, storedTime) ==
  LET tile == parseTile(c, before.tiles[c])
      elapsed == Max2(0, (now - tile.lastUpdate) * FracDen + nowFrac)
      active == IF tile.integrity > 0
                THEN Min2(elapsed, (tile.integrity * DecayDen) \div integrityDecayPerMinute)
                ELSE 0
  IN IF elapsed = 0 THEN after.tiles[c] = before.tiles[c]
     ELSE /\ after.tiles[c].integrity =
               clamp(toFixedPrecision(tile.integrity * DecayDen
                                        - elapsed * integrityDecayPerMinute, DecayDen),
                     0, 100 * Scale)
          /\ \E bonus \in {BonusDen, BonusNum} :
               after.tiles[c].energy =
                 clamp(toFixedPrecision(tile.energy * GainDen
                                          + active * energyRechargePerSecond * bonus, GainDen),
                       0, maxEnergy * Scale)
          /\ after.tiles[c].lastUpdate * FracDen = storedTime
          /\ after.tiles[c] = [before.tiles[c] EXCEPT
                                 !.integrity = after.tiles[c].integrity,
                                 !.energy = after.tiles[c].energy,
                                 !.lastUpdate = after.tiles[c].lastUpdate]

\* C33 as stated: every tile of the index is ticked as written and its
\* lastUpdate becomes now.
C33_TickSetsLastUpdateToNow ==
  [][Completed("tick")
       => \A c \in redis.tilesIndex :
            TickedAsWritten(redis, redis', c, procs'[1].now, procs'[1].nowFrac,
                            procs'[1].now * FracDen + procs'[1].nowFrac)]_vars

\* C33, amended: every tile of the index is ticked as written and its
\* lastUpdate becomes floor(now), the whole milliseconds of now; a tile
\* with elapsed = 0, which includes now earlier than lastUpdate, is left
\* untouched.
C33_TickEvolvesTile ==
  [][Completed("tick")
       => \A c \in redis.tilesIndex :
            TickedAsWritten(redis, redis', c, procs'[1].now, procs'[1].nowFrac,
                            procs'[1].now * FracDen)]_vars

\* The example: the tile with integrity 1, energy 0 and lastUpdate 0 has
\* been ticked at 60000 ms and has integrity 0 and energy 60; the tile
\* beside it, which the same sweep passed at full integrity, has 99.
C33_Witness ==
  /\ Last.pc = "done" /\ Last.op = "tick" /\ Last.now = 60000 /\ Last.nowFrac = 0
  /\ redis.tiles[<<0, 0>>].integrity = 0
  /\ redis.tiles[<<0, 0>>].energy = 60 * Scale
  /\ redis.tiles[<<0, 0>>].lastUpdate = 60000
  /\ redis.tiles[<<-1, 0>>].integrity = 99 * Scale

\* The tag getPlayerProfile reports for a player: null without a hash.
ProfileTag(st, u) == ParsePlayerState(u, st.players[u]).allianceTag

\* The tile at c has an owner with a non-null alliance tag, and one of its
\* six neighbouring coordinates holds a tile of a different player whose
\* alliance tag equals the owner's.
HasAlliedNeighbor(st, c) ==
  LET owner == parseTile(c, st.tiles[c]).ownerId
  IN /\ owner # NullId
     /\ ProfileTag(st, owner) # NullStr
     /\ \E i \in 1..6 :
          LET n == get_neighbors(c[1], c[2])[i]
          IN /\ n \in Coords
             /\ parseTile(n, st.tiles[n]).ownerId \notin {NullId, owner}
             /\ ProfileTag(st, parseTile(n, st.tiles[n]).ownerId) = ProfileTag(st, owner)

\* C34: a tick multiplies what a tile generates by
\* allianceNeighborBonusMultiplier exactly when the tile has an allied
\* neighbour in the sense above, and by 1 in every other case (no owner,
\* owner without tag, neighbours of the same player, of another alliance
\* or of none): the tile's energy grows by the active time x
\* energyRechargePerSecond x that multiplier, up to maxEnergy.
C34_AllianceBonus ==
  [][Completed("tick")
       => \A c \in redis.tilesIndex :
            LET tile == Tile(c)
                elapsed == Max2(0, (procs'[1].now - tile.lastUpdate) * FracDen
                                     + procs'[1].nowFrac)
                active == IF tile.integrity > 0
                          THEN Min2(elapsed, (tile.integrity * DecayDen)
                                               \div integrityDecayPerMinute)
                          ELSE 0
                multiplier == IF HasAlliedNeighbor(redis, c) THEN BonusNum ELSE BonusDen
            IN elapsed > 0
                 => redis'.tiles[c].energy =
                      clamp(toFixedPrecision(tile.energy * GainDen
                              + active * energyRechargePerSecond * multiplier, GainDen),
                            0, maxEnergy * Scale)]_vars

\* Two adjacent tiles with energy 0 of two players of the same alliance
\* have been ticked after one minute: each holds 63, not 60.
C34_Witness ==
  /\ Last.pc = "done" /\ Last.op = "tick" /\ Last.now = 60000 /\ Last.nowFrac = 0
  /\ OwnerOf(<<0, 0>>) = "a" /\ OwnerOf(<<-1, 0>>) = "b"
  /\ redis.players["a"].allianceTag = FOX /\ redis.players["b"].allianceTag = FOX
  /\ redis.tiles[<<0, 0>>].energy = 63 * Scale
  /\ redis.tiles[<<-1, 0>>].energy = 63 * Scale

\* The energy, in 1/GainDen units, that the tiles of the index owned by u
\* generate in a tick at now + nowFrac / FracDen ms over the store st:
\* active time x energyRechargePerSecond x multiplier for each, whatever
\* the tile's own energy is.
RECURSIVE GeneratedFor(_, _, _, _, _)
GeneratedFor(st, members, u, now, nowFrac) ==
  IF members = <<>> THEN 0
  ELSE LET c == Head(members)
           tile == parseTile(c, st.tiles[c])
           elapsed == Max2(0, (now - tile.lastUpdate) * FracDen + nowFrac)
           active == IF tile.integrity > 0
                     THEN Min2(elapsed, (tile.integrity * DecayDen) \div integrityDecayPerMinute)
                     ELSE 0
           multiplier == IF HasAlliedNeighbor(st, c) THEN BonusNum ELSE BonusDen
       IN (IF tile.ownerId = u THEN active * energyRechargePerSecond * multiplier ELSE 0)
            + GeneratedFor(st, Tail(members), u, now, nowFrac)

RechargeTimerFires(p) == Call(p, BeginTick(clock, 0))

\* Player a, of alliance FOX, owns (0,0) with energy 0 and full integrity,
\* written at time 0; beside it b may own a tile, allied or not.
InitOverlap ==
  /\ \E owner2 \in {"none", "b"}, tagB \in {NullStr, FOX} :
       redis = SeedStore("a", owner2, FOX, tagB, 0, 100 * Scale, 0)
  /\ procs = [p \in Procs |-> IdleLocal]
  /\ clock = 0
  /\ spent = [u \in Users |-> 0]
  /\ opsLeft = MaxSeededTicks
  /\ advancesLeft = MaxAdvances
  /\ postgres = [configured |-> TRUE, rows |-> {}]
  /\ server = NoLoops
  /\ limiter = NoLimits
  /\ sockets = NoSockets

NextOverlap ==
  \/ \E p \in Procs : RechargeTimerFires(p)
  \/ \E p \in Procs : StoreCall(p)
  \/ \E d \in ClockSteps : AdvanceClock(d)

SpecOverlap == InitOverlap /\ [][NextOverlap]_vars

\* C36: what a tile generates for a stretch of time is credited to its
\* owner at most once, also when sweeps overlap.  The tiles were written at
\* time 0 and keep their owners, so at any time a player has been credited
\* at most the time since 0 x energyRechargePerSecond x multiplier for each
\* tile owned, on top of the 50 the player started with.
C36_CreditedAtMostOnce ==
  \A u \in Actors :
    redis.players[u].energy * GainDen
      <= 50 * Scale * GainDen
           + GeneratedFor([redis EXCEPT !.tiles = [c \in Coords |->
                                          [redis.tiles[c] EXCEPT !.lastUpdate = 0,
                                                                 !.integrity = 100 * Scale]]],
                          SortMembers(redis.tilesIndex), u, clock, 0)

\* C35, the order of the steps: a step of a sweep changes the energy of a
\* player only when the sweep has taken every member of every scan batch.
C35_CreditedAfterSweep ==
  [][\A p \in Procs, u \in Users :
       (procs'[p] # procs[p] /\ procs[p].op = "tick" /\ EnergyOf(u)' # EnergyOf(u))
         => procs[p].batch = <<>> /\ procs[p].cursor = 0]_vars

\* --------------------------------------------- the tag of a player record
\* C37: a completed setAllianceTag is not undone by an overlapping claim.
\* In SpecTag process 2 runs the setAllianceTag calls, so a step taken while
\* process 2 is not in a call is a step of a claimTile: it leaves the
\* stored allianceTag and allianceColor of every player as the last
\* completed setAllianceTag wrote them.
C37_TagSurvivesOverlap ==
  [][\A u \in Users :
       (~Running(procs[2]) /\ redis.players[u].present)
         => /\ redis'.players[u].allianceTag = redis.players[u].allianceTag
            /\ redis'.players[u].allianceColor = redis.players[u].allianceColor]_vars

\* ------------------------------------------- a flush with claims under way
\* Four coordinates, so that tiles:index can grow by a member that sorts
\* before the cursor once the first page of a scan has been read.
WideCoords == Coords \cup {<<1, 0>>}

\* One awaited call of the flush of process p resolves.
FlushCall(p) ==
  /\ Running(procs[p]) /\ procs[p].op = "flush"
  /\ \E n \in {FlushStep(redis, postgres, procs[p])} :
        /\ postgres' = n.st
        /\ procs' = [procs EXCEPT ![p] = n.l]
  /\ UNCHANGED <<redis, clock, spent, opsLeft, advancesLeft, server, limiter, sockets>>

InitScan ==
  /\ redis = [EmptyStore EXCEPT !.tiles = [c \in WideCoords |-> NoTileHash]]
  /\ procs = [p \in Procs |-> IdleLocal]
  /\ clock = 0
  /\ spent = [u \in Users |-> 0]
  /\ opsLeft = MaxScanOps
  /\ advancesLeft = MaxAdvances
  /\ postgres = [configured |-> TRUE, rows |-> {}]
  /\ server = NoLoops
  /\ limiter = NoLimits
  /\ sockets = NoSockets

\* Process 1 serves claims one at a time; process 2 is the snapshot loop,
\* whose flush is interleaved with them at its awaited calls.
NextScan ==
  \/ \E u \in Actors, c \in WideCoords : claimTile(u, c)
  \/ Call(2, BeginFlush(postgres, "none"))
  \/ FlushCall(2)

SpecScan == InitScan /\ [][NextScan]_vars

\* The batches the flush of process 2 has passed to upsertTiles, and the
\* one it is passing.
UpsertBatches ==
  IF procs[2].pc = "done" THEN procs[2].res.upserts
  ELSE IF procs[2].pc = "f_upsert" THEN Append(procs[2].upserts, procs[2].batch)
  ELSE procs[2].upserts

MaxViews == 2

MaxViewClaims == 2

\* The views a client asks for.
ViewCenters == {<<-1, 0>>, <<13, 0>>}

ViewRadii == {0, 1}

chunkIndex(value) == value \div chunkSize

chunkIdForTile(q, r) == <<chunkIndex(q), chunkIndex(r)>>

\* The ids in the order the two loops push them: chunkQ outside, chunkR inside.
chunkIdsForView(centerQ, centerR, radius) ==
  LET minChunkQ == chunkIndex(centerQ - radius)
      maxChunkQ == chunkIndex(centerQ + radius)
      minChunkR == chunkIndex(centerR - radius)
      maxChunkR == chunkIndex(centerR + radius)
      countR == maxChunkR - minChunkR + 1
  IN [i \in 1..((maxChunkQ - minChunkQ + 1) * countR) |->
        <<minChunkQ + ((i - 1) \div countR), minChunkR + ((i - 1) % countR)>>]

SeqRange(s) == {s[i] : i \in DOMAIN s}

\* syncChunkRooms from position l.i of the loop l.pc names up to its next
\* await: socket.leave and socket.join change the rooms when they are called
\* and the function is resumed later; after the second loop it assigns
\* socket.data.chunkIds and returns to the handler, which awaits it.
RECURSIVE syncChunkRooms(_, _, _)
syncChunkRooms(sk, h, l) ==
  IF l.pc = "sync_leave"
  THEN IF l.i > Len(l.currentChunkIds)
       THEN syncChunkRooms(sk, h, [l EXCEPT !.pc = "sync_join", !.i = 1])
       ELSE IF l.currentChunkIds[l.i] \notin SeqRange(l.nextChunkSet)
       THEN [sk EXCEPT !.rooms = @ \ {l.currentChunkIds[l.i]},
                       !.handlers[h] = [l EXCEPT !.i = @ + 1]]
       ELSE syncChunkRooms(sk, h, [l EXCEPT !.i = @ + 1])
  ELSE IF l.i > Len(l.nextChunkSet)
       THEN [sk EXCEPT !.chunkIds = l.nextChunkSet,
                       !.handlers[h] = [l EXCEPT !.pc = "view_update"]]
       ELSE IF l.nextChunkSet[l.i] \notin SeqRange(l.currentChunkIds)
       THEN [sk EXCEPT !.rooms = @ \cup {l.nextChunkSet[l.i]},
                       !.handlers[h] = [l EXCEPT !.i = @ + 1]]
       ELSE syncChunkRooms(sk, h, [l EXCEPT !.i = @ + 1])

\* A sync_view packet with an integer payload and radius >= 0 arrives: the
\* handler calls get_tiles_in_range and awaits it.
SyncView(h, centerQ, centerR, radius) ==
  /\ sockets.viewsLeft > 0
  /\ sockets.handlers[h].pc \in {"idle", "done"}
  /\ sockets' = [sockets EXCEPT !.viewsLeft = @ - 1,
                                !.handlers[h] = [IdleSync EXCEPT !.pc = "get_tiles", !.centerQ = centerQ,
                                                                 !.centerR = centerR, !.radius = radius]]
  /\ UNCHANGED <<redis, procs, clock, spent, opsLeft, advancesLeft, postgres, server, limiter>>

\* The handler is resumed: with the tiles, it enters syncChunkRooms; from an
\* await inside syncChunkRooms, it goes on there; from syncChunkRooms, it
\* emits view_update with the tiles it read and acknowledges.
SyncViewResume(h) ==
  /\ \E l \in {sockets.handlers[h]} :
        /\ l.pc \in {"get_tiles", "sync_leave", "sync_join", "view_update"}
        /\ sockets' =
             IF l.pc = "get_tiles"
             THEN syncChunkRooms(sockets, h,
                    [l EXCEPT !.pc = "sync_leave", !.i = 1,
                              !.tiles = TilesInRange(redis, <<l.centerQ, l.centerR>>, l.radius),
                              !.currentChunkIds = sockets.chunkIds,
                              !.nextChunkSet = chunkIdsForView(l.centerQ, l.centerR, l.radius)])
             ELSE IF l.pc = "view_update"
             THEN [sockets EXCEPT
                     !.told = @ \cup {<<<<l.tiles[i].q, l.tiles[i].r>>, l.tiles[i].ownerId>> :
                                        i \in DOMAIN l.tiles},
                     !.view = [ok |-> TRUE, centerQ |-> l.centerQ, centerR |-> l.centerR,
                               radius |-> l.radius],
                     !.handlers[h] = [l EXCEPT !.pc = "done"]]
             ELSE syncChunkRooms(sockets, h, l)
  /\ UNCHANGED <<redis, procs, clock, spent, opsLeft, advancesLeft, postgres, server, limiter>>

\* The claim_tile handler of another connection: claimTile, and when it
\* succeeded tile_claimed to the sockets that are in the room of the chunk.
ClaimTileEvent(userId, q, r) ==
  /\ opsLeft > 0
  /\ \E n \in {Run(redis, BeginClaim(userId, <<q, r>>, clock), clock)} :
        /\ redis' = n.st
        /\ procs' = [procs EXCEPT ![1] = n.l]
        /\ spent' = SpentAfter(n.l)
        /\ sockets' = IF n.l.res.ok /\ chunkIdForTile(q, r) \in sockets.rooms
                      THEN [sockets EXCEPT !.told = @ \cup {<<<<q, r>>, userId>>}]
                      ELSE sockets
  /\ opsLeft' = opsLeft - 1
  /\ UNCHANGED <<clock, advancesLeft, postgres, server, limiter>>

InitView ==
  /\ redis = EmptyStore
  /\ procs = [p \in Procs |-> IdleLocal]
  /\ clock = 0
  /\ spent = [u \in Users |-> 0]
  /\ opsLeft = MaxViewClaims
  /\ advancesLeft = 0
  /\ postgres = [configured |-> TRUE, rows |-> {}]
  /\ server = NoLoops
  /\ limiter = NoLimits
  /\ sockets = [NoSockets EXCEPT !.viewsLeft = MaxViews]

\* One client sends sync_view packets, the next one before or after the
\* earlier one is acknowledged, while player b claims tiles.
NextView ==
  \/ \E h \in SyncHandlers, center \in ViewCenters, radius \in ViewRadii :
        SyncView(h, center[1], center[2], radius)
  \/ \E h \in SyncHandlers : SyncViewResume(h)
  \/ \E c \in Coords : ClaimTileEvent("b", c[1], c[2])

SpecView == InitView /\ [][NextView]_vars

\* The coordinates within hex distance radius of a center.
ViewCoords(centerQ, centerR, radius) ==
  {c \in ((centerQ - radius)..(centerQ + radius)) \X ((centerR - radius)..(centerR + radius)) :
     hex_distance(<<centerQ, centerR>>, c) <= radius}

\* The handler h acknowledges its sync_view in this step.
SyncViewAcknowledged(h) ==
  /\ sockets.handlers[h].pc = "view_update"
  /\ sockets'.handlers[h].pc = "done"

\* C40: when a sync_view(centerQ, centerR, radius) is acknowledged, the rooms
\* the socket is joined to are exactly chunkIdsForView of that view, and the
\* chunk of every coordinate within hex distance radius of the center is one
\* of them.
C40_RoomsAreTheView ==
  [][\A h \in SyncHandlers :
       SyncViewAcknowledged(h)
         => /\ sockets'.rooms = SeqRange(chunkIdsForView(sockets'.view.centerQ, sockets'.view.centerR,
                                                         sockets'.view.radius))
            /\ \A c \in ViewCoords(sockets'.view.centerQ, sockets'.view.centerR, sockets'.view.radius) :
                  chunkIdForTile(c[1], c[2]) \in sockets'.rooms]_vars

\* The second part of C40 by itself: every coordinate of a view lies in a
\* chunk chunkIdsForView lists.
C40_ViewCoversItsCoordinates ==
  \A center \in ViewCenters, radius \in ViewRadii :
    \A c \in ViewCoords(center[1], center[2], radius) :
      chunkIdForTile(c[1], c[2]) \in SeqRange(chunkIdsForView(center[1], center[2], radius))

\* C39: a client whose sync_view was acknowledged has been sent every claim
\* of a tile inside that view, in the tiles of a view_update or as a
\* tile_claimed event, once no sync_view of the socket is in flight: also a
\* claim that completed between the read of the tiles and the join.
C39_ViewerLearnsOfClaims ==
  (/\ sockets.view.ok
   /\ \A h \in SyncHandlers : sockets.handlers[h].pc \in {"idle", "done"})
    => \A c \in Coords :
          (/\ hex_distance(<<sockets.view.centerQ, sockets.view.centerR>>, c) <= sockets.view.radius
           /\ OwnerOf(c) # NullId)
            => <<c, OwnerOf(c)>> \in sockets.told

============================================================================
